---- MODULE Spec2Model ----
(***************************************************************************)
(* A model of rbs-tui-dom: the event bus (rbs_tui_dom/event_emitter.py),   *)
(* and the element tree, focus handling and id registry of                 *)
(* rbs_tui_dom/dom/__init__.py and rbs_tui_dom/dom/layout.py.              *)
(*                                                                         *)
(* SpecEmitter is one EventEmitter (the bus of one DOMElement) driven by   *)
(* arbitrary callers and arbitrary observers, which may call emit          *)
(* themselves; in SpecObservers the observers subscribe, unsubscribe,      *)
(* return or raise, and do not emit.                                       *)
(***************************************************************************)
EXTENDS Integers, Sequences, FiniteSets, TLC

\* ------------------------------------------------------------------------
\* Bounds of the event bus model.
\* ------------------------------------------------------------------------
\* how many registrations the emitter holds at a time, queued ones included
MaxObservers == 2
\* the longest queue of deferred operations
MaxPending == 1
\* how many emit calls may be nested in one another
MaxDepth == 2

\* Two of the DOMEventType values and two observer callables.
EventTypes == {"focus", "keyboard"}
Callables == {"f", "g"}

VARIABLES
    \* EventEmitter._observers: a dict, event type -> list of observers
    observers,
    \* EventEmitter._global_observers: a list of observers
    global_observers,
    \* EventEmitter._emitting
    emitting,
    \* EventEmitter._pending_operations: a list of (operation, args)
    pending_operations,
    \* the Python call stack above the emitter: emit frames and the frames of
    \* the observers they invoked, innermost last
    call_stack,
    \* the step the program took last: "subscribe" (one of the four
    \* EventEmitter methods, or DOMElement.add_observer), "off"
    \* (DOMElement.remove_observer), "emit", "invoke", "return", "raise",
    \* "emit_returns", "emit_raises"
    last_call,
    \* of the emit call the outermost caller made last: the observers that
    \* were registered for it when it was called (those of its type, then the
    \* global ones) and that it has not invoked yet, in order; <<"?">> once
    \* it has invoked anything else than the first of them
    due,
    \* whether the observers of this run call emit
    reentrant

emitterVars == <<observers, global_observers, emitting, pending_operations,
                 call_stack, last_call, due, reentrant>>

\* ------------------------------------------------------------------------
\* Bounds of the window model.
\* ------------------------------------------------------------------------
\* the elements the program constructs
NumElements == 3
\* the longest list of keyboard observers on the window's input
MaxSubscriptions == 2
\* the longest child list of a layout
MaxChildren == 2
\* the longest list of global observers of an element
MaxChildObservers == 2

\* Element 1 is the element given to DOMWindow.run.
Elements == 1..NumElements
None == 0

VARIABLES
    \* the elements that are DOMStackLayouts; the others are leaf DOMElements
    layouts,
    \* DOMElement.id, per element, as given to the constructor (None, or an
    \* id)
    id,
    \* DOMLayout._children, per element (empty for a leaf)
    children,
    \* DOMElement.parent, per element (None, or the parent element)
    parent,
    \* per element: whether DOMElement.window is the window (not None)
    window,
    \* DOMWindow._elements: a dict, key -> element
    elements,
    \* per element, the layouts whose _on_child_event is in its
    \* _global_observers, in order
    child_observers,
    \* per element, the layouts whose _on_child_resize is registered on it
    \* for RESIZE
    resize_observers,
    \* the elements whose _render_screen is set
    render_screen,
    \* per element, len(DOMStackLayout._children_positions)
    children_positions,
    \* DOMWindow.root_element
    root_element,
    \* DOMWindow.screen: "unopened" (None before run), "open", "closed"
    \* (None after _exit)
    screen,
    \* the elements whose focused attribute is True
    focused,
    \* DOMWindow.focused_element
    focused_element,
    \* the elements whose _key_press is in the KEYBOARD observers of
    \* DOMWindow.input, in order
    keyboard_observers,
    \* DOMWindow.input._pending_operations
    input_pending,
    \* the Focus and Blur events the last call emitted, as <<type, target>>
    emitted,
    \* the elements whose _key_press the last keyboard dispatch invoked, in
    \* order
    delivered,
    \* the call the program made last: [op, el, raised], op being "run",
    \* "focus", "blur", "click", "key", "add_child", "add_children",
    \* "set_children" or "remove_child", el the element of a focus, blur or
    \* click, raised whether the call raised
    last_op,
    \* DOMElement.style, per element: the style as authored
    style,
    \* DOMElement._computed_style, per element
    computed_style,
    \* DOMElement._desired_size, per element (NoSize for None)
    desired_size

windowVars == <<layouts, id, style, computed_style, desired_size, children, parent, window, elements, child_observers,
                resize_observers, render_screen, children_positions,
                root_element, screen, focused, focused_element,
                keyboard_observers, input_pending, emitted, delivered, last_op>>

\* ------------------------------------------------------------------------
\* Single elements whose methods are called on their own.
\* ------------------------------------------------------------------------
VARIABLES
    \* the computed style of a leaf DOMElement: [size, margin, display]
    leaf_style,
    \* what get_desired_size of that leaf did: [asked, raised, size]
    leaf_desired

leafVars == <<leaf_style, leaf_desired>>

\* ------------------------------------------------------------------------
\* One vertical DOMStackLayout of text leaves, rendered on its own.
\* ------------------------------------------------------------------------
VARIABLES
    \* _computed_style.size[VERTICAL] of the layout: FULL_LENGTH, or
    \* GROW_LENGTH (None)
    stack_size,
    \* the class of the children: "DOMText" or "DOMTextFlex"
    stack_text,
    \* the height each child desires (get_desired_size(...)[VERTICAL]), in
    \* the order of _children: FULL_LENGTH or a number of lines
    stack_lengths,
    \* the render cache of the layout: [render_screen, render_style,
    \* render_full_size, children_positions]
    stack_render,
    \* the render cache of each child: [render_screen, render_style,
    \* render_values, render_full_size, desired_size]
    stack_child,
    \* the call made last on the layout: [op, rect, force, same, draws,
    \* resolved, placed], rect being the screen it rendered the layout on,
    \* same whether the call before was a render on that rect too, draws
    \* the number of print_at calls, resolved the lengths given to the
    \* children and placed whether the children were placed
    stack_op

stackVars == <<stack_size, stack_text, stack_lengths, stack_render,
               stack_child, stack_op>>

\* ------------------------------------------------------------------------
\* The loop of DOMWindow._run, with observers of the application that may
\* raise.
\* ------------------------------------------------------------------------
VARIABLES
    \* [pc, screen, closes, atexit, ticks, event, raised]: pc is where _run
    \* is ("new" before the call, "loop" at the head of the while loop, "done"
    \* after it, "exited" once the interpreter has exited), screen is
    \* DOMWindow.screen ("None" or "open"), closes the number of calls of
    \* Screen.close, atexit the hook ("none", "registered", "ran"), ticks
    \* the number of iterations that polled the input, event the input of
    \* the last one and what its observer did, raised what the first
    \* observer that raised did raise ("nothing" before)
    poll

\* ------------------------------------------------------------------------
\* Single methods called on elements of their own: _rerender on a chain of
\* nested elements, _render on one element, _render_child,
\* _calculate_desired_size and find_child_index_at_position on one layout.
\* ------------------------------------------------------------------------
VARIABLES
    \* a window and a chain of elements, each the only child of the one
    \* before: [window, rect, el, log].  window is whether window.run was
    \* called with the first element, rect the DOMScreen the window renders
    \* it on (0 before), el the record of every element [auto, display,
    \* listeners, desired_size, render_screen, render_force], log what the
    \* last call did
    chain,
    \* one element and the last call of its _render
    gate,
    \* the arguments and the results of a call of _render_child
    placement,
    \* the arguments and the result of a call of _calculate_desired_size
    sizing,
    \* the arguments and the result of a call of
    \* find_child_index_at_position
    search

\* ------------------------------------------------------------------------
\* Single objects of the later sections: a layout that holds layouts, a
\* layout that moves by child, an ObservableCollection and an
\* ObservableEntity.
\* ------------------------------------------------------------------------
VARIABLES
    \* the arguments and the result of a call of find_descendant_at_position
    \* on a layout whose children are layouts and texts
    hit,
    \* a layout inside a layout, the scroll offsets of their screens and the
    \* last event given to the inner one
    nest,
    \* a layout that scrolls by child: its children, _focused_child_index,
    \* the offset of its screen and the last call
    bychild,
    \* an ObservableCollection: _children, _children_by_id and the
    \* subscriptions it holds on its children
    coll,
    \* an ObservableEntity: _model, _is_loading and the last call
    entity

finalVars == <<hit, nest, bychild, coll, entity>>

laterVars == <<chain, gate, placement, sizing, search, finalVars>>

probeVars == <<leafVars, stackVars, poll, laterVars>>

vars == <<emitterVars, windowVars, probeVars>>

\* dom_element.id is not None, and dom_element.id
HasId(e) == id[e] # None
Id(e) == id[e]

\* element 1 is constructed without an id, every other element e with id e
OwnIds == [e \in Elements |-> IF e = 1 THEN None ELSE e]

\* ------------------------------------------------------------------------
\* Styles.  A DOMStyle is the record of its size and its color; a field
\* that the style does not set is NoSize or NoColor.  A size is the pair of
\* its width and height, FULL_LENGTH or a number of cells.
\* ------------------------------------------------------------------------
FULL_LENGTH == -1
FULL_SIZE == <<FULL_LENGTH, FULL_LENGTH>>
NoSize == <<>>
NoColor == "unset"

\* DOMStyle.merge(base, override): the fields that override sets, and those
\* of base for the others
Merge(base, override) ==
    [size |-> IF override.size = NoSize THEN base.size ELSE override.size,
     color |-> IF override.color = NoColor THEN base.color ELSE override.color]

\* DOMStyle(size=FULL_SIZE)
FullSizeStyle == [size |-> FULL_SIZE, color |-> NoColor]

\* a DOMScreen is the record of its size, position and offset, each a pair
\* <<horizontal, vertical>>; NoScreen is None
NoScreen == [size |-> NoSize, position |-> <<>>, offset |-> <<>>]

\* a DOMStackLayout that was never rendered.  render_style is whether
\* _render_style is the computed style (it is None before the first render,
\* and the style does not change afterwards)
NoRender == [render_screen |-> NoScreen, render_style |-> FALSE,
             render_full_size |-> NoSize, children_positions |-> <<>>]

\* no call was made on the layout
NoOp == [op |-> "none", rect |-> NoScreen, force |-> FALSE, same |-> FALSE,
         draws |-> 0, resolved |-> <<>>, placed |-> FALSE]

\* get_desired_size was not called
NotAsked == [asked |-> FALSE, raised |-> FALSE, size |-> NoSize]

\* no method of the single leaf has been called
InitLeafProbe ==
    /\ leaf_style = [size |-> FULL_SIZE, display |-> "block",
                     margin |-> [left |-> 0, right |-> 0, top |-> 0, bottom |-> 0]]
    /\ leaf_desired = NotAsked

\* the single layout has no child and was never rendered
InitStackProbe ==
    /\ stack_size = FULL_LENGTH
    /\ stack_text = "DOMText"
    /\ stack_lengths = <<>>
    /\ stack_render = NoRender
    /\ stack_child = <<>>
    /\ stack_op = NoOp

\* DOMWindow.__init__
NewWindow == [pc |-> "new", screen |-> "None", closes |-> 0, atexit |-> "none",
              ticks |-> 0, event |-> <<"none", "returns">>,
              raised |-> "nothing"]

\* no call was made on the elements of the later sections
Unused == [op |-> "none"]
InitFinalProbes ==
    /\ hit = Unused
    /\ nest = Unused
    /\ bychild = Unused
    /\ coll = Unused
    /\ entity = Unused

InitLaterProbes ==
    /\ chain = Unused
    /\ gate = Unused
    /\ placement = Unused
    /\ sizing = Unused
    /\ search = Unused
    /\ InitFinalProbes

InitProbe ==
    InitLeafProbe /\ InitStackProbe /\ poll = NewWindow /\ InitLaterProbes

\* ------------------------------------------------------------------------
\* Python list and dict helpers.
\* ------------------------------------------------------------------------
\* F applied to the value of x, which is computed once
Then(x, F(_)) == CHOOSE r \in {F(v) : v \in {x}} : TRUE

\* how many times x occurs in the list s
Count(s, x) == Cardinality({i \in DOMAIN s : s[i] = x})

\* list.remove(x): the list without the first occurrence of x (x is in s)
ListRemove(s, x) ==
    LET i == CHOOSE k \in DOMAIN s : s[k] = x /\ \A j \in 1..(k - 1) : s[j] # x
    IN  SubSeq(s, 1, i - 1) \o SubSeq(s, i + 1, Len(s))

\* list.insert(i, x) with a 0-based index i in 0..len(s)
ListInsert(s, i, x) == SubSeq(s, 1, i) \o <<x>> \o SubSeq(s, i + 1, Len(s))

\* del s[i] with a 0-based index i in 0..len(s)-1
ListDelete(s, i) == SubSeq(s, 1, i) \o SubSeq(s, i + 2, Len(s))

\* dict.get(t, []) on the _observers dict
TypeList(obs, t) == IF t \in DOMAIN obs THEN obs[t] ELSE <<>>

\* d[t] = l on the _observers dict
DictSet(obs, t, l) == [x \in DOMAIN obs \cup {t} |-> IF x = t THEN l ELSE obs[x]]

\* ------------------------------------------------------------------------
\* The four subscription methods when the emitter is not emitting: the
\* else branches of add_global_observer, remove_global_observer,
\* add_observer and remove_observer.  A state of the two registries is the
\* record [obs, glob, ok]; ok is false when list.remove raised (ValueError,
\* or KeyError on the set() default), the registries being left as they were.
\* ------------------------------------------------------------------------
Operation(op, t, o) == [op |-> op, type |-> t, observer |-> o]

ApplyOperation(reg, p) ==
    CASE p.op = "ADD_OBSERVER" ->
            [reg EXCEPT !.obs = DictSet(reg.obs, p.type,
                                        Append(TypeList(reg.obs, p.type), p.observer))]
      [] p.op = "REMOVE_OBSERVER" ->
            IF Count(TypeList(reg.obs, p.type), p.observer) > 0
            THEN [reg EXCEPT !.obs = DictSet(reg.obs, p.type,
                                        ListRemove(reg.obs[p.type], p.observer))]
            ELSE [reg EXCEPT !.ok = FALSE]
      [] p.op = "ADD_GLOBAL_OBSERVER" ->
            [reg EXCEPT !.glob = Append(reg.glob, p.observer)]
      [] p.op = "REMOVE_GLOBAL_OBSERVER" ->
            IF Count(reg.glob, p.observer) > 0
            THEN [reg EXCEPT !.glob = ListRemove(reg.glob, p.observer)]
            ELSE [reg EXCEPT !.ok = FALSE]

\* The flush at the end of emit: the queued operations applied in order;
\* the first one that raises ends the loop.
RECURSIVE ApplyPending(_, _)
ApplyPending(reg, ops) ==
    IF ops = <<>> \/ ~reg.ok THEN reg
    ELSE ApplyPending(ApplyOperation(reg, Head(ops)), Tail(ops))

\* ------------------------------------------------------------------------
\* The call stack.  A frame is an emit call in progress (the position of
\* its two for loops, and whether the first loop iterates the list of the
\* dict or the empty default) or an observer that an emit call invoked and
\* that has not returned yet.
\* ------------------------------------------------------------------------
EmitFrame(t) ==
    [kind |-> "emit", type |-> t, phase |-> "type", idx |-> 0,
     live |-> t \in DOMAIN observers]

ObserverFrame ==
    [kind |-> "observer", type |-> "-", phase |-> "-", idx |-> 0, live |-> FALSE]

Idle == call_stack = <<>>
Top == call_stack[Len(call_stack)]
InObserver == ~Idle /\ Top.kind = "observer"
InEmit == ~Idle /\ Top.kind = "emit"
\* a call on the emitter comes from the outermost caller or from the
\* observer that is running
CanCall == Idle \/ InObserver
Depth == Cardinality({i \in DOMAIN call_stack : call_stack[i].kind = "emit"})
Popped == SubSeq(call_stack, 1, Len(call_stack) - 1)

\* the registrations that exist or are queued
Registrations(obs, glob) ==
    LET RECURSIVE Sum(_)
        Sum(T) == IF T = {} THEN 0
                  ELSE LET t == CHOOSE x \in T : TRUE
                       IN  Len(obs[t]) + Sum(T \ {t})
    IN  Len(glob) + Sum(DOMAIN obs)
QueuedAdds ==
    Cardinality({i \in DOMAIN pending_operations :
                    pending_operations[i].op \in {"ADD_OBSERVER", "ADD_GLOBAL_OBSERVER"}})
HasRoom == Registrations(observers, global_observers) + QueuedAdds < MaxObservers
WithinBounds(reg) == Registrations(reg.obs, reg.glob) <= MaxObservers

\* the step is (part of) the call named by label; who drives the emitter
\* does not change
Called(label) == last_call' = label /\ UNCHANGED <<reentrant, windowVars, probeVars>>

Keep == UNCHANGED due
\* the record of the outermost emit call is dropped at the caller's next call
Forget == IF Idle THEN due' = <<>> ELSE Keep
\* the outermost emit call invokes o
Invoked(o) ==
    IF Len(call_stack) > 1 THEN Keep
    ELSE due' = IF due # <<>> /\ Head(due) = o THEN Tail(due) ELSE <<"?">>

\* An exception leaves every frame: emit has no try block, and the
\* observers of this model do not catch.
Propagate == call_stack' = <<>>

\* The body shared by the four subscription methods: queue the operation
\* while emitting, else apply it (list.remove raises when the observer is
\* not in the list).
Subscribe(p) ==
    IF emitting
    THEN /\ Len(pending_operations) < MaxPending
         /\ pending_operations' = Append(pending_operations, p)
         /\ UNCHANGED <<observers, global_observers, call_stack>>
    ELSE LET reg == ApplyOperation([obs |-> observers, glob |-> global_observers,
                                    ok |-> TRUE], p)
         IN  /\ observers' = reg.obs
             /\ global_observers' = reg.glob
             /\ UNCHANGED pending_operations
             /\ IF reg.ok THEN UNCHANGED call_stack ELSE Propagate

AddGlobalObserver(o) ==
    /\ CanCall
    /\ HasRoom
    /\ Subscribe(Operation("ADD_GLOBAL_OBSERVER", "-", o))
    /\ Called("subscribe")
    /\ Forget
    /\ UNCHANGED emitting

RemoveGlobalObserver(o) ==
    /\ CanCall
    /\ Subscribe(Operation("REMOVE_GLOBAL_OBSERVER", "-", o))
    /\ Called("subscribe")
    /\ Forget
    /\ UNCHANGED emitting

AddObserver(t, o) ==
    /\ CanCall
    /\ HasRoom
    /\ Subscribe(Operation("ADD_OBSERVER", t, o))
    /\ Called("subscribe")
    /\ Forget
    /\ UNCHANGED emitting

RemoveObserver(t, o) ==
    /\ CanCall
    /\ Subscribe(Operation("REMOVE_OBSERVER", t, o))
    /\ Called("subscribe")
    /\ Forget
    /\ UNCHANGED emitting

\* DOMElement.add_observer: super().add_observer(event_type.value, observer)
ElementAddObserver(t, o) ==
    /\ CanCall
    /\ HasRoom
    /\ Subscribe(Operation("ADD_OBSERVER", t, o))
    /\ Called("subscribe")
    /\ Forget
    /\ UNCHANGED emitting

\* DOMElement.remove_observer: super().add_observer(event_type.value, observer)
ElementRemoveObserver(t, o) ==
    /\ CanCall
    /\ HasRoom
    /\ Subscribe(Operation("ADD_OBSERVER", t, o))
    /\ Called("off")
    /\ Forget
    /\ UNCHANGED emitting

\* emit, up to its first loop: self._emitting = True
Emit(t) ==
    /\ Idle \/ (reentrant /\ InObserver /\ Depth < MaxDepth)
    /\ emitting' = TRUE
    /\ call_stack' = Append(call_stack, EmitFrame(t))
    /\ Called("emit")
    /\ IF Idle
       THEN due' = TypeList(observers, t) \o global_observers
       ELSE Keep
    /\ UNCHANGED <<observers, global_observers, pending_operations>>

\* A Python list iterator reads the live list: it yields the item at its
\* index as long as the index is inside the list as it is now.
HasObserver(f) == f.phase = "type" /\ f.live /\ f.idx < Len(observers[f.type])
GlobalIdx(f) == IF f.phase = "global" THEN f.idx ELSE 0
HasGlobalObserver(f) == ~HasObserver(f) /\ GlobalIdx(f) < Len(global_observers)

\* for observer in observers: observer(*args, **kwargs)
InvokeObserver ==
    /\ InEmit
    /\ HasObserver(Top)
    /\ LET o == observers[Top.type][Top.idx + 1]
       IN  /\ call_stack' = Append(
                   [call_stack EXCEPT ![Len(call_stack)].idx = @ + 1], ObserverFrame)
           /\ Invoked(o)
    /\ Called("invoke")
    /\ UNCHANGED <<observers, global_observers, emitting, pending_operations>>

\* for observer in self._global_observers: observer(*args, **kwargs)
InvokeGlobalObserver ==
    /\ InEmit
    /\ HasGlobalObserver(Top)
    /\ LET o == global_observers[GlobalIdx(Top) + 1]
       IN  /\ call_stack' = Append(
                   [call_stack EXCEPT ![Len(call_stack)].phase = "global",
                                      ![Len(call_stack)].idx = GlobalIdx(Top) + 1],
                   ObserverFrame)
           /\ Invoked(o)
    /\ Called("invoke")
    /\ UNCHANGED <<observers, global_observers, emitting, pending_operations>>

\* the observer on top of the stack returns to the emit call that invoked it
ObserverReturns ==
    /\ InObserver
    /\ call_stack' = Popped
    /\ Called("return")
    /\ Keep
    /\ UNCHANGED <<observers, global_observers, emitting, pending_operations>>

\* (mutant) emit flushes the queue in a finally block
ObserverRaisesThenFlush ==
    /\ InObserver
    /\ Propagate
    /\ Called("raise")
    /\ Keep
    /\ emitting' = FALSE
    /\ LET reg == ApplyPending([obs |-> observers, glob |-> global_observers,
                                ok |-> TRUE], pending_operations)
       IN  /\ observers' = reg.obs
           /\ global_observers' = reg.glob
           /\ pending_operations' = <<>>

\* the observer on top of the stack raises: the exception leaves emit at
\* the call of the observer, before self._emitting = False and the flush
ObserverRaises ==
    /\ InObserver
    /\ Propagate
    /\ Called("raise")
    /\ Keep
    /\ UNCHANGED <<observers, global_observers, emitting, pending_operations>>

\* emit, after its two loops: self._emitting = False, the flush of the
\* queue with the EventEmitter methods, the clear, return self
EmitReturns ==
    /\ InEmit
    /\ ~HasObserver(Top)
    /\ ~HasGlobalObserver(Top)
    /\ emitting' = FALSE
    /\ Keep
    /\ LET reg == ApplyPending([obs |-> observers, glob |-> global_observers,
                                ok |-> TRUE], pending_operations)
       IN  /\ WithinBounds(reg)
           /\ observers' = reg.obs
           /\ global_observers' = reg.glob
           /\ IF reg.ok
              THEN /\ pending_operations' = <<>>
                   /\ call_stack' = Popped
                   /\ Called("emit_returns")
              ELSE /\ UNCHANGED pending_operations
                   /\ Propagate
                   /\ Called("emit_raises")

InitEmitter ==
    /\ observers = <<>>
    /\ global_observers = <<>>
    /\ emitting = FALSE
    /\ pending_operations = <<>>
    /\ call_stack = <<>>
    /\ last_call = "init"
    /\ due = <<>>

NextEmitter ==
    \/ \E o \in Callables : AddGlobalObserver(o)
    \/ \E o \in Callables : RemoveGlobalObserver(o)
    \/ \E t \in EventTypes, o \in Callables : AddObserver(t, o)
    \/ \E t \in EventTypes, o \in Callables : RemoveObserver(t, o)
    \/ \E t \in EventTypes, o \in Callables : ElementAddObserver(t, o)
    \/ \E t \in EventTypes, o \in Callables : ElementRemoveObserver(t, o)
    \/ \E t \in EventTypes : Emit(t)
    \/ InvokeObserver
    \/ InvokeGlobalObserver
    \/ ObserverReturns
    \/ ObserverRaises
    \/ EmitReturns

\* ------------------------------------------------------------------------
\* The window, its element tree and its input.
\*
\* A handler runs to completion between two states.  Inside a handler the
\* objects are the record w: the window variables, plus input_emitting
\* (DOMInput._emitting) and raised (an exception is propagating).
\*
\* The elements are displayed, without margin, with a scroll policy other
\* than Scroll.CHILD; the size of a layout is FULL_SIZE, the size of a leaf
\* FULL_SIZE or a fixed number of cells on both axes, and the terminal is
\* large enough to give every layout a visible screen.  The
\* keys pressed are not navigation keys and the mouse events are not scroll
\* events, so that DOMStackLayout._on_keyboard_event and
\* DOMStackLayout._on_mouse_event return without acting.
\* ------------------------------------------------------------------------
World ==
    [style |-> style, computed_style |-> computed_style,
     desired_size |-> desired_size,
     children |-> children, parent |-> parent, window |-> window,
     elements |-> elements, child_observers |-> child_observers,
     resize_observers |-> resize_observers, render_screen |-> render_screen,
     children_positions |-> children_positions, root_element |-> root_element,
     screen |-> screen, focused |-> focused, focused_element |-> focused_element,
     keyboard_observers |-> keyboard_observers, input_pending |-> input_pending,
     input_emitting |-> FALSE, emitted |-> <<>>, raised |-> FALSE]

Raise(w) == [w EXCEPT !.raised = TRUE]

\* DOMInput.add_observer(DOMInputType.KEYBOARD, e._key_press)
InputAddObserver(w, e) ==
    IF w.input_emitting
    THEN [w EXCEPT !.input_pending = Append(@, [op |-> "ADD_OBSERVER", observer |-> e])]
    ELSE [w EXCEPT !.keyboard_observers = Append(@, e)]

\* DOMInput.remove_observer(DOMInputType.KEYBOARD, e._key_press)
InputRemoveObserver(w, e) ==
    IF w.input_emitting
    THEN [w EXCEPT !.input_pending = Append(@, [op |-> "REMOVE_OBSERVER", observer |-> e])]
    ELSE IF Count(w.keyboard_observers, e) > 0
         THEN [w EXCEPT !.keyboard_observers = ListRemove(@, e)]
         ELSE Raise(w)

\* the flush at the end of DOMInput.emit, with _emitting False again; the
\* queue is cleared only when every operation was applied
RECURSIVE InputApplyPending(_, _)
InputApplyPending(w, ops) ==
    IF ops = <<>> THEN [w EXCEPT !.input_pending = <<>>]
    ELSE LET w1 == IF Head(ops).op = "ADD_OBSERVER"
                   THEN InputAddObserver(w, Head(ops).observer)
                   ELSE InputRemoveObserver(w, Head(ops).observer)
         IN  IF w1.raised THEN w1 ELSE InputApplyPending(w1, Tail(ops))

\* element.emit(type, event) for the Focus, Blur, Mouse and Keyboard events:
\* the observers the constructors registered for the type (_on_focus,
\* _on_blur; those of DOMStackLayout return without acting), then the
\* global observers, DOMLayout._on_child_event of each observing layout,
\* which emits the event on that layout
RECURSIVE ElementEmit(_, _, _)
RECURSIVE OnChildEvent(_, _, _)
ElementEmit(w, e, type) ==
    LET w1 == CASE type = "focus" -> [w EXCEPT !.focused = @ \cup {e}]
                [] type = "blur" -> [w EXCEPT !.focused = @ \ {e}]
                [] OTHER -> w
    IN  OnChildEvent(w1, w1.child_observers[e], type)

OnChildEvent(w, ls, type) ==
    IF ls = <<>> THEN w
    ELSE OnChildEvent(ElementEmit(w, Head(ls), type), Tail(ls), type)

\* the emit call of focus() and of blur(): the event is recorded
EmitOwn(w, e, type) ==
    ElementEmit([w EXCEPT !.emitted = Append(@, <<type, e>>)], e, type)

\* DOMWindow._set_blur
WindowSetBlur(w) == [w EXCEPT !.focused_element = None]

\* DOMElement.blur; self.window._set_blur() raises AttributeError on an
\* element without window
ElementBlur(w, e) ==
    IF e \notin w.focused THEN w
    ELSE LET w1 == [w EXCEPT !.focused = @ \ {e}]
         IN  IF ~w1.window[e] THEN Raise(w1)
             ELSE LET w2 == InputRemoveObserver(WindowSetBlur(w1), e)
                  IN  IF w2.raised THEN w2 ELSE EmitOwn(w2, e, "blur")

\* DOMWindow._set_focus
WindowSetFocus(w, e) ==
    LET w1 == IF w.focused_element # None
              THEN ElementBlur(w, w.focused_element)
              ELSE w
    IN  IF w1.raised THEN w1 ELSE [w1 EXCEPT !.focused_element = e]

\* (mutant) focus() returns at once only on an element without window
FocusReturnsWithoutWindow(w, e) == ~w.window[e]

\* the first line of DOMElement.focus
FocusReturns(w, e) == ~w.window[e] \/ w.focused_element = e

\* DOMElement.focus
ElementFocus(w, e) ==
    IF FocusReturns(w, e) THEN w
    ELSE LET w1 == WindowSetFocus([w EXCEPT !.focused = @ \cup {e}], e)
         IN  IF w1.raised THEN w1
             ELSE EmitOwn(InputAddObserver(w1, e), e, "focus")

\* DOMElement._mouse_event, DOMWindow._disable_click being False
MouseEvent(w, e, buttons) ==
    LET w1 == ElementEmit(w, e, "click")
    IN  IF buttons THEN ElementFocus(w1, e) ELSE w1

\* ------------------------------------------------------------------------
\* Attaching, registering and rendering.
\* ------------------------------------------------------------------------
\* DOMWindow._register_element
RegisterElement(w, e) ==
    IF ~HasId(e) THEN w
    ELSE [w EXCEPT !.elements = DictSet(@, Id(e), e)]

\* DOMElement._calculate_desired_size of a displayed element whose size
\* has no axis that is None or 0, without margin: the size of its computed
\* style (DOMStackLayout._calculate_desired_size returns what it returns)
CalculateDesiredSize(w, e) == w.computed_style[e].size

\* DOMElement.get_desired_size(max_size), without force
GetDesiredSize(w, e) ==
    Then(w, LAMBDA v :
        IF v.desired_size[e] # NoSize THEN v
        ELSE [v EXCEPT !.desired_size[e] = CalculateDesiredSize(v, e)])

RECURSIVE GetDesiredSizeEach(_, _)
GetDesiredSizeEach(w, cs) ==
    IF cs = <<>> THEN w
    ELSE GetDesiredSizeEach(GetDesiredSize(w, Head(cs)), Tail(cs))

\* DOMStackLayout._render and DOMElement._render on a visible screen:
\* _should_render holds in a layout (its _render_full_size is a list, never
\* equal to the _desired_size tuple), a layout with a window asks every
\* child its desired size and rebuilds _children_positions with one entry
\* per child, every child is rendered, and the screen is recorded
RECURSIVE Render(_, _)
RECURSIVE RenderChildren(_, _)
Render(w, e) ==
    Then(w, LAMBDA v :
        IF e \in layouts
        THEN LET w1 == IF v.window[e]
                       THEN [GetDesiredSizeEach(v, v.children[e])
                                EXCEPT !.children_positions[e] = Len(v.children[e])]
                       ELSE v
                 w2 == RenderChildren(w1, v.children[e])
             IN  [w2 EXCEPT !.render_screen = @ \cup {e}]
        ELSE [v EXCEPT !.render_screen = @ \cup {e}])

RenderChildren(w, cs) ==
    IF cs = <<>> THEN w ELSE RenderChildren(Render(w, Head(cs)), Tail(cs))

\* DOMElement._rerender without force, of an element whose size has no axis
\* that is None: without window nothing; never rendered, a RESIZE event for the observing layouts
\* (_on_child_resize, and _on_child_event which calls it), each of which
\* rerenders; else a render on the screen it has, and window.screen.refresh()
RECURSIVE Rerender(_, _)
RECURSIVE RerenderEach(_, _)
RECURSIVE RerenderAll(_, _)
Rerender(w, e) ==
    Then(w, LAMBDA v :
        IF ~v.window[e] THEN v
        ELSE IF e \notin v.render_screen
             THEN LET w1 == RerenderAll(v, v.resize_observers[e])
                  IN  RerenderEach(w1, w1.child_observers[e])
             ELSE LET w1 == Render(v, e)
                  IN  IF v.screen = "open" THEN w1 ELSE Raise(w1))

RerenderEach(w, ls) ==
    IF ls = <<>> \/ w.raised THEN w
    ELSE RerenderEach(Rerender(w, Head(ls)), Tail(ls))

RerenderAll(w, ls) ==
    IF ls = {} \/ w.raised THEN w
    ELSE LET l == CHOOSE x \in ls : TRUE
         IN  RerenderAll(Rerender(w, l), ls \ {l})

\* DOMElement._update_style: the display being the same, force is False
\* and resize is set when the size differs
UpdateStyle(w, e, cs, render) ==
    Then(w, LAMBDA v :
        LET resize == cs.size # v.computed_style[e].size
            w1 == [v EXCEPT !.computed_style[e] = cs]
        IN  IF render THEN Rerender(w1, e)
            ELSE IF resize THEN [w1 EXCEPT !.desired_size[e] = NoSize]
            ELSE w1)

\* the loop of DOMLayout._set_parent_style and of DOMLayout.set_style, and
\* DOMElement._set_parent_style and DOMLayout._set_parent_style
RECURSIVE Cascade(_, _, _)
RECURSIVE SetParentStyle(_, _, _, _)
Cascade(w, cs, st) ==
    IF cs = <<>> THEN w
    ELSE Cascade(SetParentStyle(w, Head(cs), st, FALSE), Tail(cs), st)

SetParentStyle(w, e, st, render) ==
    Then(w, LAMBDA v :
        LET cs == Merge(st, v.style[e])
        IN  IF e \in layouts
            THEN UpdateStyle(Cascade(v, v.children[e], cs), e, cs, render)
            ELSE UpdateStyle(v, e, cs, render))

\* DOMElement.set_style and DOMLayout.set_style
ElementSetStyle(w, e, patch, render) ==
    Then([w EXCEPT !.style[e] = Merge(@, patch)], LAMBDA v :
        LET cs == Merge(v.computed_style[e], v.style[e])
        IN  IF e \in layouts
            THEN UpdateStyle(Cascade(v, v.children[e], cs), e, cs, render)
            ELSE UpdateStyle(v, e, cs, render))

\* DOMElement._set_parent and DOMLayout._set_parent for a parent element p:
\* _set_parent_style ends with _rerender (the window is still the one the
\* element had), then parent and window are set, the element is registered,
\* and a layout does the same for its children
RECURSIVE SetParent(_, _, _)
RECURSIVE SetParentEach(_, _, _)
SetParent(w, e, p) ==
    Then(SetParentStyle(w, e, w.computed_style[p], TRUE), LAMBDA w1 :
        IF w1.raised THEN w1
        ELSE LET w2 == [w1 EXCEPT !.parent[e] = p, !.window[e] = w1.window[p]]
                 w3 == IF w2.window[e] THEN RegisterElement(w2, e) ELSE w2
             IN  IF e \in layouts THEN SetParentEach(w3, w3.children[e], e) ELSE w3)

SetParentEach(w, cs, p) ==
    IF cs = <<>> \/ w.raised THEN w
    ELSE SetParentEach(SetParent(w, Head(cs), p), Tail(cs), p)

\* _set_parent for the window as parent: root_element._set_parent(self, None)
SetWindow(w, e) ==
    LET w1 == RegisterElement([w EXCEPT !.window[e] = TRUE], e)
    IN  IF e \in layouts THEN SetParentEach(w1, w1.children[e], e) ELSE w1

\* element.add_global_observer(l._on_child_event), the element not emitting
AddChildObserver(w, e, l) == [w EXCEPT !.child_observers[e] = Append(@, l)]

\* element.remove_global_observer(l._on_child_event), the element not
\* emitting: list.remove raises ValueError when it is not there
RemoveChildObserver(w, e, l) ==
    IF Count(w.child_observers[e], l) > 0
    THEN [w EXCEPT !.child_observers[e] = ListRemove(@, l)]
    ELSE Raise(w)

\* element.add_observer(DOMEventType.RESIZE, l._on_child_resize), and also
\* element.remove_observer(DOMEventType.RESIZE, l._on_child_resize), which
\* calls add_observer
AddResizeObserver(w, e, l) == [w EXCEPT !.resize_observers[e] = @ \cup {l}]

\* the body of the loop of DOMLayout.add_children; add_child does the same
\* at the index given
Attach(w, l, e, index) ==
    LET w1 == SetParent([w EXCEPT !.children[l] = ListInsert(@, index, e)], e, l)
    IN  IF w1.raised THEN w1
        ELSE AddChildObserver(AddResizeObserver(w1, e, l), e, l)

RECURSIVE AttachEach(_, _, _)
AttachEach(w, l, es) ==
    IF es = <<>> \/ w.raised THEN w
    ELSE AttachEach(Attach(w, l, Head(es), Len(w.children[l])), l, Tail(es))

\* DOMLayout.add_child
LayoutAddChild(w, l, e, index) ==
    LET w1 == Attach(w, l, e, index)
    IN  IF w1.raised THEN w1 ELSE Rerender(w1, l)

\* DOMLayout.add_children
LayoutAddChildren(w, l, es) ==
    LET w1 == AttachEach(w, l, es)
    IN  IF w1.raised THEN w1 ELSE Rerender(w1, l)

\* DOMLayout.remove_child: del self._children_positions[index] raises
\* IndexError when the layout has fewer positions than that
LayoutRemoveChild(w, l, index) ==
    LET e == w.children[l][index + 1]
        w1 == [w EXCEPT !.children[l] = ListDelete(@, index)]
    IN  IF index >= w1.children_positions[l] THEN Raise(w1)
        ELSE LET w2 == [w1 EXCEPT !.children_positions[l] = @ - 1]
                 w3 == RemoveChildObserver(AddResizeObserver(w2, e, l), e, l)
             IN  IF w3.raised THEN w3 ELSE Rerender(w3, l)

\* the two loops of DOMLayout.set_children
RECURSIVE ForgetEach(_, _, _)
ForgetEach(w, l, es) ==
    IF es = <<>> \/ w.raised THEN w
    ELSE ForgetEach(RemoveChildObserver(w, Head(es), l), l, Tail(es))

RECURSIVE AdoptEach(_, _, _)
AdoptEach(w, l, es) ==
    IF es = <<>> \/ w.raised THEN w
    ELSE LET w1 == SetParent(w, Head(es), l)
         IN  IF w1.raised THEN w1
             ELSE AdoptEach(AddChildObserver(w1, Head(es), l), l, Tail(es))

\* DOMLayout.set_children
LayoutSetChildren(w, l, cs) ==
    LET w1 == AdoptEach(ForgetEach(w, l, w.children[l]), l, cs)
    IN  IF w1.raised THEN w1
        ELSE Rerender([w1 EXCEPT !.children[l] = cs], l)

\* DOMWindow._run up to self._ready.set(), and DOMWindow.render(True)
WindowRun(w, e) ==
    LET w1 == SetWindow([w EXCEPT !.screen = "open", !.root_element = e], e)
        w2 == ElementFocus(w1, e)
    IN  IF w2.raised THEN w2 ELSE Render(w2, e)

\* DOMWindow._exit
WindowExit(w) == [w EXCEPT !.screen = "closed"]

\* DOMInput.emit of a mouse event and the except branch of DOMWindow._run:
\* DOMWindow._on_mouse_event logs what its try block raises, the queued
\* operations are applied with _emitting False, and the window exits when
\* that raises
MouseDispatch(w, e, buttons) ==
    LET w1 == MouseEvent([w EXCEPT !.input_emitting = TRUE], e, buttons)
        w2 == InputApplyPending([w1 EXCEPT !.input_emitting = FALSE, !.raised = FALSE],
                                w1.input_pending)
    IN  IF w2.raised THEN WindowExit(w2) ELSE w2

\* DOMInput.emit of a keyboard event: e._key_press of every subscription in
\* turn, which emits the Keyboard event on e
RECURSIVE KeyboardDispatch(_, _)
KeyboardDispatch(w, ls) ==
    IF ls = <<>> THEN w
    ELSE KeyboardDispatch(ElementEmit(w, Head(ls), "keyboard"), Tail(ls))

\* DOMStackLayout.find_descendant_at_position from layout l, over the
\* positions of the terminal: no element for a layout without children, the
\* leaf at the position else (reading _render_screen of an element that was
\* never rendered raises)
RECURSIVE HitTargets(_, _)
HitTargets(w, l) ==
    IF l \notin w.render_screen THEN {}
    ELSE UNION {LET c == w.children[l][i]
                IN  IF c \in layouts THEN HitTargets(w, c)
                    ELSE IF c \in w.render_screen THEN {c} ELSE {} :
                i \in DOMAIN w.children[l]}

\* ------------------------------------------------------------------------
\* What the callers of this model do.
\* ------------------------------------------------------------------------
\* the elements above e: the layouts that have it as a child or observe it
Above(w, e) ==
    {p \in Elements : \/ Count(w.children[p], e) > 0
                      \/ Count(w.child_observers[e], p) > 0
                      \/ p \in w.resize_observers[e]}

RECURSIVE AboveAll(_, _)
AboveAll(w, S) ==
    LET T == S \cup UNION {Above(w, e) : e \in S}
    IN  IF T = S THEN S ELSE AboveAll(w, T)

\* the callers build no cycle and keep element 1 for the window: a layout
\* is given neither element 1 nor an element that is above it
CanAdopt(l, e) == e # 1 /\ e \notin AboveAll(World, {l})

\* the lists of n or more distinct elements
ChildLists(n) ==
    UNION {{cs \in [1..k -> Elements] : \A i, j \in 1..k : cs[i] = cs[j] => i = j} :
           k \in n..MaxChildren}

WindowWithinBounds(w) ==
    /\ Len(w.keyboard_observers) <= MaxSubscriptions
    /\ \A e \in Elements : /\ Len(w.children[e]) <= MaxChildren
                           /\ Len(w.child_observers[e]) <= MaxChildObservers

\* the handler leaves the objects as in w
Commit(w) ==
    /\ WindowWithinBounds(w)
    /\ style' = w.style
    /\ computed_style' = w.computed_style
    /\ desired_size' = w.desired_size
    /\ children' = w.children
    /\ parent' = w.parent
    /\ window' = w.window
    /\ elements' = w.elements
    /\ child_observers' = w.child_observers
    /\ resize_observers' = w.resize_observers
    /\ render_screen' = w.render_screen
    /\ children_positions' = w.children_positions
    /\ root_element' = w.root_element
    /\ screen' = w.screen
    /\ focused' = w.focused
    /\ focused_element' = w.focused_element
    /\ keyboard_observers' = w.keyboard_observers
    /\ input_pending' = w.input_pending
    /\ emitted' = w.emitted
    /\ UNCHANGED <<layouts, id, emitterVars, probeVars>>

Did(op, e, w) == last_op' = [op |-> op, el |-> e, raised |-> w.raised]

\* window.run(element 1), once
Run ==
    /\ screen = "unopened"
    /\ LET w == WindowRun(World, 1)
       IN  Commit(w) /\ Did("run", 1, w)
    /\ delivered' = <<>>

\* e.focus()
Focus(e) ==
    /\ LET w == ElementFocus(World, e)
       IN  Commit(w) /\ Did("focus", e, w)
    /\ delivered' = <<>>

\* e.blur()
Blur(e) ==
    /\ LET w == ElementBlur(World, e)
       IN  Commit(w) /\ Did("blur", e, w)
    /\ delivered' = <<>>

\* one tick of the loop of DOMWindow._run with a mouse event over leaf e
Click(e, buttons) ==
    /\ screen = "open"
    /\ e \in HitTargets(World, root_element)
    /\ LET w == MouseDispatch(World, e, buttons)
       IN  Commit(w) /\ Did("click", e, [raised |-> FALSE])
    /\ delivered' = <<>>

\* one tick of the loop of DOMWindow._run with a keyboard event
KeyPress ==
    /\ screen = "open"
    /\ LET w == KeyboardDispatch([World EXCEPT !.input_emitting = TRUE],
                                 keyboard_observers)
       IN  /\ Commit([w EXCEPT !.input_emitting = FALSE])
           /\ Did("key", None, w)
    /\ delivered' = keyboard_observers

\* l.add_child(e, index)
AddChild(l, e, index) ==
    /\ l \in layouts
    /\ CanAdopt(l, e)
    /\ index \in 0..Len(children[l])
    /\ LET w == LayoutAddChild(World, l, e, index)
       IN  Commit(w) /\ Did("add_child", None, w)
    /\ delivered' = <<>>

\* l.add_children(es)
AddChildren(l, es) ==
    /\ l \in layouts
    /\ \A i \in DOMAIN es : CanAdopt(l, es[i])
    /\ LET w == LayoutAddChildren(World, l, es)
       IN  Commit(w) /\ Did("add_children", None, w)
    /\ delivered' = <<>>

\* l.set_children(cs)
SetChildren(l, cs) ==
    /\ l \in layouts
    /\ \A i \in DOMAIN cs : CanAdopt(l, cs[i])
    /\ LET w == LayoutSetChildren(World, l, cs)
       IN  Commit(w) /\ Did("set_children", None, w)
    /\ delivered' = <<>>

\* l.remove_child(index)
RemoveChild(l, index) ==
    /\ l \in layouts
    /\ index \in 0..(Len(children[l]) - 1)
    /\ LET w == LayoutRemoveChild(World, l, index)
       IN  Commit(w) /\ Did("remove_child", None, w)
    /\ delivered' = <<>>

\* the state of the window and of elements that were just constructed,
\* without children
InitObjects ==
    /\ children = [e \in Elements |-> <<>>]
    /\ parent = [e \in Elements |-> None]
    /\ window = [e \in Elements |-> FALSE]
    /\ elements = <<>>
    /\ child_observers = [e \in Elements |-> <<>>]
    /\ resize_observers = [e \in Elements |-> {}]
    /\ render_screen = {}
    /\ children_positions = [e \in Elements |-> 0]
    /\ root_element = None
    /\ screen = "unopened"
    /\ focused = {}
    /\ focused_element = None
    /\ keyboard_observers = <<>>
    /\ input_pending = <<>>
    /\ emitted = <<>>
    /\ delivered = <<>>
    /\ last_op = [op |-> "init", el |-> None, raised |-> FALSE]

\* every element constructed with DOMStyle(size=FULL_SIZE)
InitStyle ==
    /\ style = [e \in Elements |-> FullSizeStyle]
    /\ computed_style = [e \in Elements |-> FullSizeStyle]
    /\ desired_size = [e \in Elements |-> NoSize]

InitWindow == InitObjects /\ id = OwnIds /\ InitStyle

\* the elements constructed one by one: all but the last are layouts
InitElements ==
    /\ layouts = Elements \ {NumElements}
    /\ InitWindow

\* the children of l in a tree given by its parent function: the
\* DOMStackLayout constructor calls set_children(children) before the
\* layout has a window
RECURSIVE Ascending(_)
Ascending(S) ==
    IF S = {} THEN <<>>
    ELSE LET m == CHOOSE x \in S : \A y \in S : x <= y
         IN  <<m>> \o Ascending(S \ {m})

\* the elements constructed as trees, every layout with its children;
\* element 1 is a layout and is in no other
InitTree ==
    /\ layouts \in {L \in SUBSET Elements : 1 \in L}
    /\ parent \in {pf \in [Elements -> {None} \cup layouts] :
                     /\ pf[1] = None
                     /\ \A e \in Elements : pf[e] < e}
    /\ children = [l \in Elements |-> Ascending({e \in Elements : parent[e] = l})]
    /\ child_observers = [e \in Elements |->
                            IF parent[e] = None THEN <<>> ELSE <<parent[e]>>]
    /\ id = OwnIds
    /\ InitStyle
    /\ window = [e \in Elements |-> FALSE]
    /\ elements = <<>>
    /\ resize_observers = [e \in Elements |-> {}]
    /\ render_screen = {}
    /\ children_positions = [e \in Elements |-> 0]
    /\ root_element = None
    /\ screen = "unopened"
    /\ focused = {}
    /\ focused_element = None
    /\ keyboard_observers = <<>>
    /\ input_pending = <<>>
    /\ emitted = <<>>
    /\ delivered = <<>>
    /\ last_op = [op |-> "init", el |-> None, raised |-> FALSE]

NextFocus ==
    \/ Run
    \/ \E e \in Elements : Focus(e)
    \/ \E e \in Elements : Blur(e)
    \/ \E e \in Elements, buttons \in BOOLEAN : Click(e, buttons)
    \/ KeyPress

NextTree ==
    \/ Run
    \/ \E l \in Elements, e \in Elements, index \in 0..MaxChildren : AddChild(l, e, index)
    \/ \E l \in Elements, es \in ChildLists(2) : AddChildren(l, es)
    \/ \E l \in Elements, cs \in ChildLists(0) : SetChildren(l, cs)
    \/ \E l \in Elements, index \in 0..MaxChildren : RemoveChild(l, index)

\* ------------------------------------------------------------------------
\* Specifications.
\* ------------------------------------------------------------------------
InitReentrant == InitEmitter /\ reentrant = TRUE /\ InitElements /\ InitProbe

InitObservers == InitEmitter /\ reentrant = FALSE /\ InitElements /\ InitProbe

InitFocus == InitEmitter /\ reentrant = FALSE /\ InitTree /\ InitProbe

\* one event bus, observers that call emit
SpecEmitter == InitReentrant /\ [][NextEmitter]_vars

\* one event bus, observers that do not call emit
SpecObservers == InitObservers /\ [][NextEmitter]_vars

\* a window on a tree of elements that is not changed: focus, blur, mouse
\* and keyboard
SpecFocus == InitFocus /\ [][NextFocus]_vars

\* a window and the layouts that are given and taken children
SpecTree == InitObservers /\ [][NextTree]_vars

\* ------------------------------------------------------------------------
\* The event bus: claims.
\* ------------------------------------------------------------------------
\* C1: while an emit call of the outermost caller is in progress, emit calls
\* made by its observers included, no subscription change takes effect: the
\* registered observers are the same before and after every step taken
\* inside the emission.
MutationsDeferred ==
    [][(~Idle /\ ~Idle') =>
         (observers' = observers /\ global_observers' = global_observers)]_vars

\* C2: an emit call that returns has invoked exactly the observers that were
\* registered for its type when it was called, in registration order, and
\* then the global observers, in registration order, and nothing else.
EmitInvokesRegisteredInOrder ==
    (Idle /\ last_call = "emit_returns") => due = <<>>

\* C3: DOMElement.remove_observer called outside any emission leaves no
\* observer with more registrations than before.
OffNeverAddsRegistration ==
    [][(Idle /\ last_call' = "off") =>
         \A t \in EventTypes, o \in Callables :
            Count(TypeList(observers', t), o) <= Count(TypeList(observers, t), o)]_vars

\* C4: when an observer raises, the exception leaves every emit call in
\* progress (it reaches the outermost caller), the observers still due are
\* not invoked, and the queued operations are not applied: the queue and the
\* registered observers are as they were.
RaiseAbortsEmission ==
    [][last_call' = "raise" =>
         /\ call_stack' = <<>>
         /\ due' = due
         /\ pending_operations' = pending_operations
         /\ observers' = observers
         /\ global_observers' = global_observers
         /\ emitting' = emitting]_vars

\* an observer has raised while another registered observer was still due
\* and an operation was queued
RaisedWithObserverDueAndQueue ==
    /\ last_call = "raise"
    /\ Len(due) > 0 /\ due # <<"?">>
    /\ pending_operations # <<>>
\* ------------------------------------------------------------------------
\* Focus and keyboard: claims.
\* ------------------------------------------------------------------------
\* C5: in every state of a window, an element whose focused attribute is
\* set is the window's focus holder, so at most one element is flagged and
\* no ancestor of the holder is.
SingleFocusHolder == \A e \in focused : focused_element = e

\* C6: between two input dispatches the keyboard observers of the window's
\* input are one subscription of the focus holder, or none without holder,
\* and a keyboard dispatch invokes no element twice and no element whose
\* focused attribute is not set.
KeyboardRoutedToHolder ==
    /\ keyboard_observers =
         IF focused_element = None THEN <<>> ELSE <<focused_element>>
    /\ last_op.op = "key" =>
         \A i \in DOMAIN delivered : /\ delivered[i] \in focused
                                     /\ Count(delivered, delivered[i]) = 1

\* C7: focus() on the element that holds the window's focus, and blur() on
\* an element whose focused attribute is not set, change neither the focus
\* holder nor the focused attributes nor the keyboard observers, and emit
\* no Focus or Blur event.
FocusBlurIdempotent ==
    [][\A e \in Elements :
          (\/ last_op' = [op |-> "focus", el |-> e, raised |-> FALSE]
                /\ focused_element = e
           \/ last_op' = [op |-> "blur", el |-> e, raised |-> FALSE]
                /\ e \notin focused)
          => /\ focused_element' = focused_element
             /\ focused' = focused
             /\ keyboard_observers' = keyboard_observers
             /\ input_pending' = input_pending
             /\ emitted' = <<>>]_vars

\* focus() was called on the element that held the focus and was
\* subscribed, and returned without an event
FocusedTheHolder ==
    /\ last_op = [op |-> "focus", el |-> focused_element, raised |-> FALSE]
    /\ focused_element \in focused
    /\ keyboard_observers # <<>>
    /\ emitted = <<>>

\* ------------------------------------------------------------------------
\* The tree and the registry: claims.
\* ------------------------------------------------------------------------
\* C8: an element is in the child list of at most one layout, once, and
\* that layout is its parent.
SingleParent ==
    \A e \in Elements, l \in Elements :
        Count(children[l], e) > 0 => (parent[e] = l /\ Count(children[l], e) = 1)

\* C9: an element that is in a child list has a parent, and an element that
\* is in no child list and is not the window's root has neither parent nor
\* window.
DetachedHasNoParent ==
    \A e \in Elements :
        IF \E l \in Elements : Count(children[l], e) > 0
        THEN parent[e] # None
        ELSE e # root_element => (parent[e] = None /\ ~window[e])

\* the elements of the window's tree: the root and what is below it
RECURSIVE Below(_)
Below(S) ==
    LET T == S \cup {e \in Elements : \E l \in S : Count(children[l], e) > 0}
    IN  IF T = S THEN S ELSE Below(T)

Attached == IF root_element = None THEN {} ELSE Below({root_element})

\* C10: the keys of the window's registry are the ids of the elements of
\* its tree that have one, and each id is registered for that element.
RegistryMirrorsTree ==
    /\ DOMAIN elements = {Id(e) : e \in {x \in Attached : HasId(x)}}
    /\ \A e \in Attached : HasId(e) => elements[Id(e)] = e

\* ------------------------------------------------------------------------
\* Elements constructed with the same id.
\* ------------------------------------------------------------------------
\* element 1 without an id, element 2 with id 2, and every later element
\* with an id that an earlier element may have as well
SharedIds ==
    {f \in [Elements -> {None} \cup Elements] :
        /\ f[1] = None
        /\ \A e \in Elements \ {1} : f[e] \in 2..e}

InitRegistry ==
    /\ InitEmitter
    /\ reentrant = FALSE
    /\ layouts = Elements \ {NumElements}
    /\ InitObjects
    /\ InitStyle
    /\ InitProbe
    /\ id \in SharedIds

NextAttach ==
    \/ Run
    \/ \E l \in Elements, e \in Elements, index \in 0..MaxChildren : AddChild(l, e, index)
    \/ \E l \in Elements, es \in ChildLists(2) : AddChildren(l, es)

\* a window and layouts that are given children whose ids may be the same
SpecRegistry == InitRegistry /\ [][NextAttach]_vars

\* C11: a call that attaches to the window's tree an element whose id is
\* registered for another element of the tree raises, and an id registered
\* for an element that stays in the tree stays registered for that element.
AttachWithRegisteredIdFails ==
    [][/\ \A i \in DOMAIN elements :
            (elements[i] \in Attached /\ elements[i] \in Attached')
            => (i \in DOMAIN elements' /\ elements'[i] = elements[i])
       /\ (\E e \in Attached' \ Attached : \E x \in Attached \cap Attached' :
              x # e /\ HasId(e) /\ Id(e) \in DOMAIN elements
              /\ elements[Id(e)] = x)
          => last_op'.raised]_vars

\* ------------------------------------------------------------------------
\* Styles set on the elements of a tree.
\* ------------------------------------------------------------------------
\* the largest fixed size of a leaf, in cells
MaxFixed == 1
Colors == {"red"}

\* the sizes given to a leaf: FULL_SIZE, or n cells on both axes
LeafSizes == {FULL_SIZE} \cup {<<n, n>> : n \in 1..MaxFixed}

\* the styles given to set_style: a color or none, and a size or none (none
\* for a layout)
Patches == [size : {NoSize} \cup LeafSizes, color : {NoColor} \cup Colors]

\* e.set_style(patch, render)
SetStyle(e, patch, render) ==
    /\ e \in layouts => patch.size = NoSize
    /\ LET w == ElementSetStyle(World, e, patch, render)
       IN  Commit(w) /\ Did("set_style", e, w)
    /\ delivered' = <<>>

\* the layouts constructed with DOMStyle(size=FULL_SIZE), the leaf with a
\* size of its own
InitStyled ==
    /\ InitEmitter
    /\ reentrant = FALSE
    /\ layouts = Elements \ {NumElements}
    /\ InitObjects
    /\ id = OwnIds
    /\ style \in {s \in [Elements -> [size : LeafSizes, color : {NoColor}]] :
                    \A l \in layouts : s[l] = FullSizeStyle}
    /\ computed_style = style
    /\ desired_size = [e \in Elements |-> NoSize]
    /\ InitProbe

NextStyle ==
    \/ Run
    \/ \E l \in Elements, e \in Elements, index \in 0..MaxChildren : AddChild(l, e, index)
    \/ \E e \in Elements, patch \in Patches, render \in BOOLEAN :
          SetStyle(e, patch, render)

\* a window and a tree whose elements are attached and given styles
SpecStyle == InitStyled /\ [][NextStyle]_vars

\* C12: the computed style of every element that has a parent is the merge
\* of its parent's computed style and of its own authored style.
ComputedStyleIsMerge ==
    \A e \in Elements :
        parent[e] # None
        => computed_style[e] = Merge(computed_style[parent[e]], style[e])

\* C13: a desired size that is cached is the size that
\* _calculate_desired_size gives for the computed style the element has
\* now.
DesiredSizeCacheValid ==
    \A e \in Elements :
        desired_size[e] # NoSize => desired_size[e] = CalculateDesiredSize(World, e)

\* ------------------------------------------------------------------------
\* The desired size of a leaf DOMElement.
\* ------------------------------------------------------------------------
\* GROW_LENGTH stands for Python's None
GROW_LENGTH == -2
\* the widest margin, in cells
MaxMargin == 1

\* the values of one axis of a size: None, FULL_LENGTH, or 0..MaxFixed + 1
\* cells
Lengths == {GROW_LENGTH, FULL_LENGTH} \cup 0..(MaxFixed + 1)
Margins == [left : 0..MaxMargin, right : 0..MaxMargin,
            top : 0..MaxMargin, bottom : 0..MaxMargin]
Displays == {"block", "none"}

\* the truth value Python gives to a length: None and 0 are false
Truthy(x) == x # GROW_LENGTH /\ x # 0

\* DOMElement._calculate_styled_size of a size that is not None
CalculateStyledSize(st, size) ==
    IF st.display = "none" THEN size
    ELSE <<IF size[1] # FULL_LENGTH
           THEN size[1] + st.margin.left + st.margin.right ELSE size[1],
           IF size[2] # FULL_LENGTH
           THEN size[2] + st.margin.top + st.margin.bottom ELSE size[2]>>

\* DOMElement._calculate_desired_size on the computed style st
LeafDesiredSize(st) ==
    IF st.display = "none" THEN [asked |-> TRUE, raised |-> FALSE, size |-> <<0, 0>>]
    ELSE IF Truthy(st.size[1]) /\ Truthy(st.size[2])
         THEN [asked |-> TRUE, raised |-> FALSE, size |-> CalculateStyledSize(st, st.size)]
         ELSE [asked |-> TRUE, raised |-> TRUE, size |-> NoSize]

\* leaf.get_desired_size(max_size), the first time
AskLeafSize ==
    /\ leaf_desired = NotAsked
    /\ leaf_desired' = LeafDesiredSize(leaf_style)
    /\ UNCHANGED <<leaf_style, stackVars, poll, laterVars, emitterVars,
                   windowVars>>

\* a leaf DOMElement with any computed style
InitLeaf ==
    /\ InitEmitter
    /\ reentrant = FALSE
    /\ InitElements
    /\ leaf_style \in [size : Lengths \X Lengths, margin : Margins, display : Displays]
    /\ leaf_desired = NotAsked
    /\ InitStackProbe
    /\ poll = NewWindow
    /\ InitLaterProbes

SpecLeaf == InitLeaf /\ [][AskLeafSize]_vars

\* a length of a fixed number of cells
IsFixed(x) == x >= 0

\* C14: get_desired_size of a displayed leaf raises exactly when an axis of
\* its computed size is not a fixed number of cells, and returns the fixed
\* size plus the margins else.
LeafSizeFixedOrError ==
    (leaf_desired.asked /\ leaf_style.display = "block")
    => IF IsFixed(leaf_style.size[1]) /\ IsFixed(leaf_style.size[2])
       THEN leaf_desired =
              [asked |-> TRUE, raised |-> FALSE,
               size |-> <<leaf_style.size[1] + leaf_style.margin.left
                            + leaf_style.margin.right,
                          leaf_style.size[2] + leaf_style.margin.top
                            + leaf_style.margin.bottom>>]
       ELSE leaf_desired.raised

\* ------------------------------------------------------------------------
\* The render of a stack layout.  The layout is vertical and attached to a
\* running window, its _desired_size was never asked for (it is the root
\* element, or it is rendered by a direct call), and its children are text
\* leaves that are displayed, have no margin, desire the full width and a
\* height of their own, and keep their value and style.
\* ------------------------------------------------------------------------
\* the longest child list of the layout
MaxStack == 3
\* the tallest rect the layout is offered
MaxHeight == 3

Min(a, b) == IF a < b THEN a ELSE b
Max(a, b) == IF a > b THEN a ELSE b

\* the heights a child may desire
StackLengths == {FULL_LENGTH} \cup 1..(MaxFixed + 1)
StackChildren == UNION {[1..n -> StackLengths] : n \in 0..MaxStack}

\* the rects a caller offers to the layout
Widths == {2}
Origin == <<1, 1>>
Offsets == {<<0, 0>>, <<0, -1>>, <<-1, 0>>}
Rects == [size : Widths \X (0..MaxHeight), position : {Origin},
          offset : Offsets]

\* DOMScreen.is_visible
IsVisible(s) == s.size[1] > 0 /\ s.size[2] > 0

\* a text leaf that was never rendered.  render_style, render_values and
\* render_full_size tell whether the cached attribute is the current style,
\* value and desired size (it is None otherwise); desired_size is whether
\* _desired_size is set
NewLeaf == [render_screen |-> NoScreen, render_style |-> FALSE,
            render_values |-> FALSE, render_full_size |-> FALSE,
            desired_size |-> FALSE]

\* DOMText._should_render and DOMTextFlex._should_render.  _render_force is
\* False: nothing calls _rerender.  DOMTextFlex compares _render_value, which
\* is None since the constructor, with the string _value
LeafShouldRender(text, c, s, force) ==
    \/ force
    \/ s # c.render_screen
    \/ ~c.render_style
    \/ c.desired_size # c.render_full_size
    \/ IF text = "DOMText" THEN ~c.render_values ELSE TRUE

\* DOMText._render and DOMTextFlex._render: the cache of the leaf afterwards
\* and the number of print_at calls
LeafRender(text, c, s, force) ==
    IF ~LeafShouldRender(text, c, s, force) \/ ~IsVisible(s)
    THEN [cache |-> [c EXCEPT !.render_screen = s, !.render_style = TRUE],
          draws |-> 0]
    ELSE IF text = "DOMText"
    THEN [cache |-> [render_screen |-> s, render_style |-> TRUE,
                     render_values |-> TRUE, render_full_size |-> TRUE,
                     desired_size |-> TRUE],
          draws |-> s.size[2]]
    ELSE [cache |-> [c EXCEPT !.render_screen = s, !.render_style = TRUE,
                              !.render_full_size = c.desired_size],
          draws |-> 2 * s.size[2]]

RECURSIVE SumTo(_, _)
\* s[1] + ... + s[n]
SumTo(s, n) == IF n = 0 THEN 0 ELSE SumTo(s, n - 1) + s[n]

\* full_length_widgets, last_full_length_widget (0 for None) and length
\* after the first loop of DOMStackLayout._render
FullLengthWidgets(ls) == Cardinality({i \in DOMAIN ls : ls[i] = FULL_LENGTH})
LastFullLengthWidget(ls) ==
    IF FullLengthWidgets(ls) = 0 THEN 0
    ELSE CHOOSE i \in DOMAIN ls :
            ls[i] = FULL_LENGTH /\ \A j \in DOMAIN ls : ls[j] = FULL_LENGTH => j <= i
FixedLength(ls) ==
    SumTo([i \in DOMAIN ls |-> IF ls[i] = FULL_LENGTH THEN 0 ELSE ls[i]], Len(ls))

\* total_shared_length, shared_length and extra_shared_length
TotalSharedLength(ls, length) == Max(length - FixedLength(ls), 0)
SharedLength(ls, length) ==
    TotalSharedLength(ls, length)
        \div (IF FullLengthWidgets(ls) = 0 THEN 1 ELSE FullLengthWidgets(ls))
ExtraSharedLength(ls, length) ==
    TotalSharedLength(ls, length) - SharedLength(ls, length) * FullLengthWidgets(ls)

\* the extra length goes to the first full length child
ResolvedLengthsFirst(ls, length) ==
    [i \in DOMAIN ls |->
        IF ls[i] # FULL_LENGTH THEN ls[i]
        ELSE SharedLength(ls, length)
             + (IF \A j \in 1..(i - 1) : ls[j] # FULL_LENGTH
                THEN ExtraSharedLength(ls, length) ELSE 0)]

\* the length the second loop of DOMStackLayout._render passes to
\* _render_child for each child
ResolvedLengths(ls, length) ==
    [i \in DOMAIN ls |->
        IF ls[i] # FULL_LENGTH THEN ls[i]
        ELSE SharedLength(ls, length)
             + (IF i = LastFullLengthWidget(ls)
                THEN ExtraSharedLength(ls, length) ELSE 0)]

\* the length of the child is not cut at the end of the screen
ChildScreenUncut(s, cp, len) ==
    [size |-> <<s.size[1], Max(len + Min(cp, 0), 0)>>,
     position |-> <<s.position[1],
                    Min(s.position[2] + Max(cp, 0), s.size[2] + s.position[2])>>,
     offset |-> <<s.offset[1], Min(cp, 0)>>]

\* the screen _render_child allots to a child at child_position cp with the
\* resolved length len, before the margin of the child is taken off
ChildScreen(s, cp, len) ==
    [size |-> <<s.size[1],
                Max(Min(len + Min(cp, 0), s.size[2] - Max(cp, 0)), 0)>>,
     position |-> <<s.position[1],
                    Min(s.position[2] + Max(cp, 0), s.size[2] + s.position[2])>>,
     offset |-> <<s.offset[1], Min(cp, 0)>>]

\* DOMStackLayout._should_render(self._render_screen, force): the screen
\* compared is the cached one, and _desired_size (None) differs from
\* _render_full_size once that is set
StackShouldRender(text, r, cs, force) ==
    \/ force
    \/ ~r.render_style
    \/ r.render_full_size # NoSize
    \/ \E i \in DOMAIN cs : LeafShouldRender(text, cs[i], cs[i].render_screen, force)

\* the offset is never reset
ResetOffsetNever(ls, s) == s

\* the screen after "if length + shared_length * full_length_widgets <=
\* screen.size[self.orientation]": the offset of the screen offered is
\* reset on the axis of the layout
ResetOffset(ls, s) ==
    IF FixedLength(ls) + SharedLength(ls, s.size[2]) * FullLengthWidgets(ls)
          <= s.size[2]
    THEN [s EXCEPT !.offset[2] = 0] ELSE s

\* the child_position is recorded as it is
ChildrenPositionScrolled(cp, s) == cp

\* "self._children_positions.append(child_position -
\* screen.offset[self.orientation])"
ChildrenPosition(cp, s) == cp - s.offset[2]

\* DOMStackLayout._render from "self._children_positions = []" on, for the
\* resolved lengths res, the screen s (the one offered, after the reset of
\* its offset) and the child_position start of every child and of the end
StackPlaced(text, ls, cs, s, force, res, start) ==
    Then([i \in DOMAIN ls |->
             LeafRender(text, [cs[i] EXCEPT !.desired_size = TRUE],
                        ChildScreen(s, start[i], res[i]), force)],
         LAMBDA leaves :
            [render |-> [render_screen |-> s, render_style |-> TRUE,
                         render_full_size |->
                             <<0, IF ls = <<>> THEN 0
                                  ELSE start[Len(ls) + 1] - s.offset[2]>>,
                         children_positions |->
                             [i \in DOMAIN ls |-> ChildrenPosition(start[i], s)]],
             child |-> [i \in DOMAIN ls |-> leaves[i].cache],
             draws |-> SumTo([i \in DOMAIN ls |-> leaves[i].draws], Len(ls))
                       + (IF s.size[1] > 0
                          THEN Max(0, s.size[2] - Max(0, start[Len(ls) + 1]))
                          ELSE 0),
             resolved |-> res,
             placed |-> TRUE])

\* DOMStackLayout._render from "self._children_positions = []" on: s0 is the
\* screen offered
StackPlace(text, ls, cs, s0, force) ==
    Then(ResolvedLengths(ls, s0.size[2]), LAMBDA res :
        Then(ResetOffset(ls, s0), LAMBDA s :
            Then([i \in 1..(Len(ls) + 1) |-> s.offset[2] + SumTo(res, i - 1)],
                 LAMBDA start : StackPlaced(text, ls, cs, s, force, res, start))))

\* DOMStackLayout._render(screen, force)
StackRender(text, ls, r, cs, s, force) ==
    IF ~StackShouldRender(text, r, cs, force)
    THEN [render |-> [r EXCEPT !.render_screen = s, !.render_style = TRUE],
          child |-> cs, draws |-> 0, resolved |-> <<>>, placed |-> FALSE]
    ELSE IF ~IsVisible(s)
    THEN Then([i \in DOMAIN ls |-> LeafRender(text, cs[i], s, FALSE)],
              LAMBDA leaves :
                 [render |-> [r EXCEPT !.render_screen = s, !.render_style = TRUE],
                  child |-> [i \in DOMAIN ls |-> leaves[i].cache],
                  draws |-> SumTo([i \in DOMAIN ls |-> leaves[i].draws], Len(ls)),
                  resolved |-> <<>>, placed |-> FALSE])
    ELSE StackPlace(text, ls, cs, s, force)

\* what a call leaves in the variables of the layout
StackDid(op, rect, force, result) ==
    \E out \in {result} :
    /\ stack_render' = out.render
    /\ stack_child' = out.child
    /\ stack_op' = [op |-> op, rect |-> rect, force |-> force,
                    same |-> stack_op.op = "render" /\ op = "render"
                             /\ stack_op.rect = rect,
                    draws |-> out.draws, resolved |-> out.resolved,
                    placed |-> out.placed]
    /\ UNCHANGED <<stack_size, stack_text, stack_lengths, leafVars, poll,
                   laterVars, emitterVars, windowVars>>

\* the parent, the window or a caller renders the layout on a rect
RenderStack(rect, force) ==
    /\ rect \in Rects
    /\ StackDid("render", rect, force,
                StackRender(stack_text, stack_lengths, stack_render,
                            stack_child, rect, force))

\* a layout with any children, not rendered yet
InitStack ==
    /\ InitEmitter
    /\ reentrant = FALSE
    /\ InitElements
    /\ InitLeafProbe
    /\ stack_size = FULL_LENGTH
    /\ stack_text \in {"DOMText", "DOMTextFlex"}
    /\ stack_lengths \in StackChildren
    /\ stack_render = NoRender
    /\ stack_child = [i \in DOMAIN stack_lengths |-> NewLeaf]
    /\ stack_op = NoOp
    /\ poll = NewWindow
    /\ InitLaterProbes

NextStack == \E rect \in Rects, force \in BOOLEAN : RenderStack(rect, force)

SpecStack == InitStack /\ [][NextStack]_vars

\* C15: a render of the layout that follows a render with the same rect, and
\* is not forced, makes no print_at call, neither for a child nor for the
\* space after the last child
RepeatedRenderDrawsNothing ==
    (stack_op.op = "render" /\ stack_op.same /\ ~stack_op.force)
    => stack_op.draws = 0

\* the children of the layout that desire FULL_LENGTH
Fills == {i \in DOMAIN stack_lengths : stack_lengths[i] = FULL_LENGTH}

\* C16: when a render places the children of a layout that has N >= 1
\* children of full length on a rect of height L, the other children
\* desiring F lines in total, every full length child but the last gets
\* max(0, L - F) divided by N, rounded down, the last one gets the remainder
\* too, the full length children get max(0, L - F) lines together, the others
\* get the length they desire, and each child starts where the one before it
\* ends (and has exactly its length on screen when all of them fit)
FillSharesRemainder ==
    (stack_op.op = "render" /\ stack_op.placed /\ Fills # {})
    => LET L == stack_op.rect.size[2]
           N == Cardinality(Fills)
           F == SumTo([i \in DOMAIN stack_lengths |->
                          IF i \in Fills THEN 0 ELSE stack_lengths[i]],
                      Len(stack_lengths))
           rest == IF L - F > 0 THEN L - F ELSE 0
           got == stack_op.resolved
       IN  /\ DOMAIN got = DOMAIN stack_lengths
           /\ \A i \in Fills :
                 got[i] = (rest \div N)
                          + (IF \E j \in Fills : j > i THEN 0 ELSE rest % N)
           /\ SumTo([i \in DOMAIN got |-> IF i \in Fills THEN got[i] ELSE 0],
                    Len(got)) = rest
           /\ \A i \in DOMAIN got \ Fills : got[i] = stack_lengths[i]
           /\ \A i \in DOMAIN got :
                 stack_render.children_positions[i] = SumTo(got, i - 1)
           /\ F <= L
              => \A i \in DOMAIN got :
                    stack_child[i].render_screen.size[2] = got[i]

\* two full length children that got different lengths, after a child of a
\* length of its own
FillGotRemainder ==
    /\ stack_op.op = "render"
    /\ stack_op.placed
    /\ \E i, j \in Fills :
          /\ i < j
          /\ stack_op.resolved[j] = stack_op.resolved[i] + 1
          /\ stack_child[j].render_screen.size[2] = stack_op.resolved[j]
    /\ \E k \in DOMAIN stack_lengths : k \notin Fills

\* a render placed children whose resolved lengths add up to at most the
\* height of the rect
ContentFits ==
    /\ stack_op.op = "render"
    /\ stack_op.placed
    /\ SumTo(stack_op.resolved, Len(stack_op.resolved)) <= stack_op.rect.size[2]

\* C17 (as stated): after a render that placed children whose resolved
\* lengths add up to at most the height of the rect, the offset of the cached
\* screen is (0, 0), whatever the offset of the rect offered
OffsetResetWhenContentFits ==
    ContentFits => stack_render.render_screen.offset = <<0, 0>>

\* C17: after such a render the vertical offset of the cached screen, the
\* one on the axis of the layout, is 0, and its horizontal offset is the one
\* of the rect offered
MainOffsetResetWhenContentFits ==
    ContentFits
    => stack_render.render_screen.offset = <<stack_op.rect.offset[1], 0>>

\* the content fits a rect that was offered with a vertical offset, and the
\* render reset it
OffsetWasReset ==
    /\ ContentFits
    /\ stack_lengths # <<>>
    /\ stack_op.rect.offset[2] < 0
    /\ stack_render.render_screen.offset[2] = 0

\* ------------------------------------------------------------------------
\* Hit testing in the rendered layout.
\* ------------------------------------------------------------------------
\* DOMScreen.contains_position
ContainsPosition(s, p) ==
    \A k \in 1..2 : s.position[k] <= p[k] /\ p[k] <= s.position[k] + s.size[k]

RECURSIVE FindChildIndex(_, _, _, _)
\* DOMStackLayout.find_child_index_at_position with left and right given,
\* indices counted from 1; every child is displayed
FindChildIndex(ps, position, left, right) ==
    IF left <= right
    THEN LET mid == left + ((right - left) \div 2)
         IN  IF ps[mid] = position
             THEN CHOOSE index \in left..right :
                     /\ ps[index] = position
                     /\ \A j \in left..(index - 1) : ps[j] # position
             ELSE IF ps[mid] > position
             THEN FindChildIndex(ps, position, left, mid - 1)
             ELSE FindChildIndex(ps, position, mid + 1, right)
    ELSE Max(1, Min(Len(stack_lengths), right))

\* DOMStackLayout.find_child_index_at_position(position)
FindChildIndexAtPosition(position) ==
    FindChildIndex(stack_render.children_positions,
                   position - (stack_render.render_screen.position[2]
                               + stack_render.render_screen.offset[2]),
                   1, Len(stack_render.children_positions))

\* DOMStackLayout.find_descendant_at_position(position): <<"None">>,
\* <<"self">> or <<"child", index>>
FindDescendantAtPosition(p) ==
    IF ~ContainsPosition(stack_render.render_screen, p) \/ Len(stack_lengths) = 0
    THEN <<"None">>
    ELSE LET index == FindChildIndexAtPosition(p[2])
         IN  IF ContainsPosition(stack_child[index].render_screen, p)
             THEN <<"child", index>>
             ELSE <<"self">>

\* the cells of a screen
Cells(s) ==
    {p \in (0..(MaxHeight + 2)) \X (0..(MaxHeight + 2)) :
        \A k \in 1..2 : s.position[k] <= p[k] /\ p[k] < s.position[k] + s.size[k]}

\* C18: in a layout that has children, which were placed, the descendant
\* found at a cell of the layout's screen is the child whose screen has that
\* cell, and the layout itself when no child has it, as in the space after
\* the last child
HitTestFindsChildOfCell ==
    (stack_op.op = "render" /\ stack_op.placed /\ stack_lengths # <<>>)
    => \A p \in Cells(stack_render.render_screen) :
          /\ \A i \in DOMAIN stack_lengths :
                p \in Cells(stack_child[i].render_screen)
                => FindDescendantAtPosition(p) = <<"child", i>>
          /\ (\A i \in DOMAIN stack_lengths :
                p \notin Cells(stack_child[i].render_screen))
             => FindDescendantAtPosition(p) = <<"self">>

\* ------------------------------------------------------------------------
\* Scrolling by line.  The scroll policy of the layout is None or
\* Scroll.LINE; its height in the computed style is FULL_LENGTH or
\* GROW_LENGTH (None).
\* ------------------------------------------------------------------------
\* the mouse wheel and the keys DOMStackLayout listens to
ScrollKeys == {"down", "up", "page_down", "page_up", "right", "left"}

\* the orientation and the offset that _on_mouse_event and _on_keyboard_event
\* pass to _move: 1 is HORIZONTAL, 2 is VERTICAL
MoveOrientation(key) == IF key \in {"right", "left"} THEN 1 ELSE 2
MoveOffset(key) ==
    CASE key = "down" -> 1
      [] key = "up" -> -1
      [] key = "page_down" -> stack_render.render_screen.size[2]
      [] key = "page_up" -> -stack_render.render_screen.size[2]
      [] key = "right" -> 4
      [] key = "left" -> -4

\* the offset is not kept above min_offset
ClampedOffsetBelowMax(min_offset, offset, delta) == Min(0, offset - delta)

\* i_offset of _move_by_line
ClampedOffset(min_offset, offset, delta) ==
    Min(0, Max(min_offset, offset - delta))

\* _move and _move_by_line: the screen _render_move renders the layout on,
\* or the cached screen when the layout does not move
MovedScreen(key) ==
    LET r == stack_render
        k == MoveOrientation(key)
    IN  IF r.render_full_size[2] <= r.render_screen.size[2]
           \/ stack_size = GROW_LENGTH
        THEN r.render_screen
        ELSE [r.render_screen EXCEPT
                 !.offset[k] = ClampedOffset(r.render_screen.size[k]
                                                - r.render_full_size[k],
                                             r.render_screen.offset[k],
                                             MoveOffset(key))]

\* a mouse wheel or keyboard event reaches the layout, which was rendered
\* and displayed before
Scroll(key) ==
    /\ stack_render.render_full_size # NoSize
    /\ \E s \in {MovedScreen(key)} :
          IF s = stack_render.render_screen
          THEN StackDid(key, s, FALSE,
                        [render |-> stack_render, child |-> stack_child,
                         draws |-> 0, resolved |-> <<>>, placed |-> FALSE])
          ELSE StackDid(key, s, FALSE,
                        StackRender(stack_text, stack_lengths, stack_render,
                                    stack_child, s, FALSE))

\* the event of the last call comes again
Repeat == stack_op.op \in ScrollKeys /\ Scroll(stack_op.op)

\* the first render of the layout
FirstRender(rect) == stack_op.op = "none" /\ RenderStack(rect, FALSE)

\* a layout of DOMText children, with a height of FULL_LENGTH or None in its
\* style, not rendered yet
InitScroll ==
    /\ InitEmitter
    /\ reentrant = FALSE
    /\ InitElements
    /\ InitLeafProbe
    /\ stack_size \in {FULL_LENGTH, GROW_LENGTH}
    /\ stack_text = "DOMText"
    /\ stack_lengths \in StackChildren
    /\ stack_render = NoRender
    /\ stack_child = [i \in DOMAIN stack_lengths |-> NewLeaf]
    /\ stack_op = NoOp
    /\ poll = NewWindow
    /\ InitLaterProbes

NextScroll ==
    \/ \E rect \in Rects : FirstRender(rect)
    \/ \E key \in ScrollKeys : Scroll(key)

\* an event that is repeated comes again as long as it moves the layout
SpecScroll == InitScroll /\ [][NextScroll]_vars /\ WF_vars(Repeat)

\* the content of the layout is longer than its screen
ContentLonger ==
    /\ stack_render.render_full_size # NoSize
    /\ stack_render.render_full_size[2] > stack_render.render_screen.size[2]

\* -(content_length - visible_length), and 0 for a content that is not
\* longer
MinOffset ==
    IF ContentLonger
    THEN stack_render.render_screen.size[2] - stack_render.render_full_size[2]
    ELSE 0

\* the vertical offset of the layout, 0 before it is rendered
ScrollOffset ==
    IF stack_render.render_screen = NoScreen THEN 0
    ELSE stack_render.render_screen.offset[2]

\* C19 (as stated): in a rendered layout whose content is longer than its
\* screen the offset is within [MinOffset, 0] after every scroll event; when
\* from some point on every event is a scroll down, the offset is MinOffset
\* from some point on, and when every event is a scroll up, it is 0 from
\* some point on
ScrollConverges ==
    /\ []((stack_op.op \in ScrollKeys /\ ContentLonger)
            => ScrollOffset \in MinOffset..0)
    /\ \A key \in {"down", "page_down"} :
          <>[](stack_op.op = key /\ ContentLonger) => <>[](ScrollOffset = MinOffset)
    /\ \A key \in {"up", "page_up"} :
          <>[](stack_op.op = key /\ ContentLonger) => <>[](ScrollOffset = 0)

\* the layout has a length of its own: the height of its style is not None
HasLength == stack_size # GROW_LENGTH

\* C19: the same for a layout whose height in the style is not None
ScrollConvergesWithLength ==
    /\ []((stack_op.op \in ScrollKeys /\ ContentLonger /\ HasLength)
            => ScrollOffset \in MinOffset..0)
    /\ \A key \in {"down", "page_down"} :
          <>[](stack_op.op = key /\ ContentLonger /\ HasLength)
          => <>[](ScrollOffset = MinOffset)
    /\ \A key \in {"up", "page_up"} :
          <>[](stack_op.op = key /\ ContentLonger /\ HasLength)
          => <>[](ScrollOffset = 0)

\* a scroll down moved a layout to the end of its content, more than a line
\* away from the start
ScrolledToEnd ==
    /\ stack_op.op = "down"
    /\ ContentLonger
    /\ HasLength
    /\ ScrollOffset = MinOffset
    /\ MinOffset < -1

\* ------------------------------------------------------------------------
\* The poll loop.  Each iteration polls at most one input event; the
\* observers that the application registered for it return, raise
\* CLIWindowExit or raise another exception.  Screen._clear and Screen.close
\* return.
\* ------------------------------------------------------------------------
\* how many iterations poll the input
MaxTicks == 4

\* the input of an iteration and what its observers do
InputKinds == {"none", "keyboard", "mouse"}
\* "no target" is find_descendant_at_position returning None
Raises == {"CLIWindowExit", "Exception"}
Outcomes == {"returns", "no target"} \cup Raises

\* DOMWindow._exit
Exit(p) ==
    IF p.screen # "open" THEN p
    ELSE [p EXCEPT !.screen = "None", !.closes = @ + 1]

\* what leaves DOMInput.check_value: a keyboard observer that raises is
\* below DOMElement._key_press and the emit calls only; a mouse observer is
\* below the try block of DOMWindow._on_mouse_event, which logs whatever is
\* raised; it returns when the hit test finds no element
CheckValueRaises(kind, outcome) ==
    IF kind = "keyboard" THEN outcome ELSE "returns"

\* DOMWindow._run up to the while loop
WindowStart ==
    /\ poll.pc = "new"
    /\ poll' = [poll EXCEPT !.pc = "loop", !.screen = "open",
                            !.atexit = "registered"]
    /\ UNCHANGED <<leafVars, stackVars, laterVars, emitterVars, windowVars>>

\* "if not self.screen: break"
LoopBreak ==
    /\ poll.pc = "loop"
    /\ poll.screen # "open"
    /\ poll' = [poll EXCEPT !.pc = "done"]
    /\ UNCHANGED <<leafVars, stackVars, laterVars, emitterVars, windowVars>>

\* one iteration of the while loop on an open screen
Tick(kind, outcome) ==
    /\ poll.pc = "loop"
    /\ poll.screen = "open"
    /\ poll.ticks < MaxTicks
    /\ kind = "none" => outcome = "returns"
    /\ outcome = "no target" => kind = "mouse"
    /\ \E p \in {[poll EXCEPT !.ticks = @ + 1, !.event = <<kind, outcome>>,
                              !.raised = IF @ = "nothing" /\ kind # "none"
                                            /\ outcome \in Raises
                                         THEN outcome ELSE @]} :
          poll' = CASE CheckValueRaises(kind, outcome) = "CLIWindowExit"
                        -> [Exit(p) EXCEPT !.pc = "done"]
                    [] CheckValueRaises(kind, outcome) = "Exception"
                        -> Exit(p)
                    [] OTHER -> p
    /\ UNCHANGED <<leafVars, stackVars, laterVars, emitterVars, windowVars>>

\* the application calls _exit
ExitCall ==
    /\ poll.pc \in {"loop", "done"}
    /\ poll' = Exit(poll)
    /\ UNCHANGED <<leafVars, stackVars, laterVars, emitterVars, windowVars>>

\* the interpreter exits and runs the hook that _run registered
AtExit ==
    /\ poll.atexit = "registered"
    /\ poll' = [Exit(poll) EXCEPT !.atexit = "ran", !.pc = "exited"]
    /\ UNCHANGED <<leafVars, stackVars, laterVars, emitterVars, windowVars>>

InitPoll ==
    /\ InitEmitter
    /\ reentrant = FALSE
    /\ InitElements
    /\ InitLeafProbe
    /\ InitStackProbe
    /\ InitLaterProbes
    /\ poll = NewWindow

NextPoll ==
    \/ WindowStart
    \/ LoopBreak
    \/ \E kind \in InputKinds, outcome \in Outcomes : Tick(kind, outcome)
    \/ ExitCall
    \/ AtExit

SpecPoll == InitPoll /\ [][NextPoll]_vars

\* C20: once an observer has raised while an iteration processed the input,
\* the loop is over, or is at its head and about to break, and Screen.close
\* was called once; and it is never called twice
ExceptionEndsLoopAndClosesOnce ==
    /\ poll.closes <= 1
    /\ poll.raised # "nothing"
       => /\ poll.closes = 1
          /\ poll.screen = "None"
          /\ poll.pc \in {"loop", "done", "exited"}

\* C21: after an iteration whose dispatch failed (an observer of a keyboard
\* or a mouse event raised, or the mouse event found no element), the screen
\* is closed, so that the loop is over or breaks at its head
FailedDispatchTearsDown ==
    (poll.event[1] # "none" /\ poll.event[2] # "returns")
    => /\ poll.screen = "None"
       /\ poll.closes = 1

\* ------------------------------------------------------------------------
\* _rerender on a chain of elements.  Element 1 is the layout given to
\* window.run, every other element is the only child of the one before it;
\* the last one is a leaf (a DOMText), the others are DOMStackLayouts.  The
\* rects the window offers are visible, and a rect stands for the rect a
\* render hands down from it to the child as well.
\* ------------------------------------------------------------------------
\* the number of elements of the chain
ChainLength == 3
\* the number of rects the window renders the first element on
MaxRects == 2

Chain == 1..ChainLength
\* whether _computed_style.size is None, per axis
AutoAxes == {<<FALSE, FALSE>>, <<TRUE, FALSE>>}
\* the resize argument of _rerender; NoResize is None
NoResize == <<>>
Resizes == {NoResize} \cup (BOOLEAN \X BOOLEAN)
Flagged(resize) == resize # NoResize /\ (resize[1] \/ resize[2])

\* an element that was constructed and never rendered: auto is whether its
\* computed size is None per axis, display whether it is displayed,
\* listeners how often the parent hears a RESIZE event (once when only
\* _on_child_event is registered, by set_children; twice when
\* _on_child_resize is registered too, by add_child and add_children),
\* desired_size whether _desired_size is set, render_screen the rect cached
\* (0 for None)
NewElement(auto, listeners) ==
    [auto |-> auto, display |-> TRUE, listeners |-> listeners,
     desired_size |-> FALSE, render_screen |-> 0, render_force |-> FALSE]

\* the escalation condition of _rerender(force, resize) on element e: a
\* flagged axis on an element that is not the first one, with force or with
\* a flagged axis on which the size of the element is None
EscalationCondition(el, e, force, resize) ==
    /\ Flagged(resize)
    /\ e # 1
    /\ \/ force
       \/ \E a \in 1..2 : resize[a] /\ el[e].auto[a]

\* what a call did: escalation is whether its arguments met the escalation
\* condition, and per element, emits is the number of RESIZE events it
\* emitted, direct whether its _rerender reached "self._render(
\* self._render_screen, force)", rendered whether its _render was called, on
\* the rect of the last call, dropped whether its _desired_size was set to
\* None, had the rect it had cached before the call
NoLog(op, e, force, resize, el) ==
    [op |-> op, e |-> e,
     escalation |-> op = "rerender" /\ EscalationCondition(el, e, force, resize),
     emits |-> [x \in Chain |-> 0], direct |-> [x \in Chain |-> FALSE],
     rendered |-> [x \in Chain |-> FALSE], on |-> [x \in Chain |-> 0],
     dropped |-> [x \in Chain |-> FALSE],
     had |-> [x \in Chain |-> el[x].render_screen],
     same |-> TRUE]

RECURSIVE ChainRender(_, _, _, _)
\* DOMStackLayout._render and DOMText._render of element e on a visible
\* rect, called by _rerender, by the parent or by the window: the gate is
\* open (the caller forces it, _rerender set _render_force, or the element is
\* rendered on a rect for the first time), a layout asks the desired size of
\* its child and renders it (on a rect without length when the layout is not
\* displayed), and DOMElement._render ends the call
ChainRender(c, e, rect, force) ==
    Then([c EXCEPT !.log.rendered[e] = TRUE, !.log.on[e] = rect], LAMBDA c1 :
        Then(IF e = ChainLength THEN c1
             ELSE ChainRender([c1 EXCEPT !.el[e + 1].desired_size = TRUE],
                              e + 1, rect, force),
             LAMBDA c2 :
                [c2 EXCEPT !.el[e].render_force = FALSE,
                           !.el[e].render_screen =
                               IF c2.el[e].display THEN rect ELSE 0,
                           !.el[e].desired_size =
                               IF e = ChainLength THEN TRUE ELSE @]))

\* the element emits without dropping its desired size
ChainEscalateKeeping(c, e) == c

\* "self._desired_size = None" before the RESIZE event is emitted
ChainEscalate(c, e) ==
    [c EXCEPT !.el[e].desired_size = FALSE, !.log.dropped[e] = TRUE]

\* an element that was never rendered renders itself
NeverRenderedGoesUp(c, e) == FALSE

\* "if not self._render_screen"
NeverRendered(c, e) == c.el[e].render_screen = 0

RECURSIVE ChainRerender(_, _, _, _)
RECURSIVE ChainEmit(_, _, _, _)
\* DOMElement._rerender(force, resize) of element e of a window
ChainRerender(c, e, force, resize) ==
    Then([c EXCEPT !.el[e].render_force = TRUE], LAMBDA c1 :
        LET parent_resize ==
                IF resize = NoResize THEN <<FALSE, FALSE>>
                ELSE <<resize[1] /\ c1.el[e].auto[1],
                       resize[2] /\ c1.el[e].auto[2]>>
        IN  IF /\ Flagged(resize)
               /\ e # 1
               /\ (force \/ parent_resize[1] \/ parent_resize[2])
            THEN ChainEmit(ChainEscalate(c1, e), e, parent_resize,
                           c1.el[e].listeners)
            ELSE IF NeverRendered(c1, e)
            THEN ChainEmit(c1, e, <<TRUE, TRUE>>, c1.el[e].listeners)
            ELSE ChainRender([c1 EXCEPT !.log.direct[e] = TRUE], e,
                             c1.el[e].render_screen, force))

\* self.emit(RESIZE, DOMResizeEvent(self, axes)): nothing listens to the
\* first element; _on_child_resize and _on_child_event of the parent call
\* its _rerender(resize=event.resize_axis), one after the other
ChainEmit(c, e, axes, listeners) ==
    Then([c EXCEPT !.log.emits[e] = @ + 1], LAMBDA c1 :
        IF e = 1 THEN c1
        ELSE Then(ChainRerender(c1, e - 1, FALSE, axes), LAMBDA c2 :
                IF listeners = 1 THEN c2
                ELSE ChainRerender(c2, e - 1, FALSE, axes)))

\* what a call leaves in the chain
ChainDid(op, e, force, resize, result) ==
    \E out \in {result} :
    /\ chain' = [out EXCEPT !.log.same = out.el = chain.el]
    /\ UNCHANGED <<leafVars, stackVars, poll, gate, placement, sizing, search,
                   finalVars, emitterVars,
                   windowVars>>

ChainStart(op, e, force, resize) ==
    [chain EXCEPT !.log = NoLog(op, e, force, resize, chain.el)]

\* DOMWindow._run and DOMWindow.render after the terminal was resized: the
\* first element is rendered on the rect of the screen, with force
WindowRender ==
    /\ chain.rect < MaxRects
    /\ ChainDid("render", 1, TRUE, NoResize,
                ChainRender([ChainStart("render", 1, TRUE, NoResize)
                                EXCEPT !.window = TRUE, !.rect = @ + 1],
                            1, chain.rect + 1, TRUE))

\* a change (set_value, set_style, add_child ...) that ends in
\* e._rerender(force, resize)
Rerendered(e, force, resize) ==
    /\ e \in Chain
    /\ ChainDid("rerender", e, force, resize,
                IF ~chain.window THEN ChainStart("rerender", e, force, resize)
                ELSE ChainRerender(ChainStart("rerender", e, force, resize),
                                   e, force, resize))

\* set_style(DOMStyle(display=...), render=False): _update_style forgets the
\* desired size and does not call _rerender
SetDisplay(e) ==
    /\ e \in Chain
    /\ ChainDid("display", e, FALSE, NoResize,
                [ChainStart("display", e, FALSE, NoResize)
                    EXCEPT !.el[e].display = ~@, !.el[e].desired_size = FALSE])

InitChain ==
    /\ InitEmitter
    /\ reentrant = FALSE
    /\ InitElements
    /\ InitLeafProbe
    /\ InitStackProbe
    /\ poll = NewWindow
    /\ InitFinalProbes
    /\ gate = Unused
    /\ placement = Unused
    /\ sizing = Unused
    /\ search = Unused
    /\ \E autos \in [Chain -> AutoAxes], listeners \in 1..2 :
          /\ autos[1] = <<FALSE, FALSE>>
          /\ LET el == [e \in Chain |-> NewElement(autos[e], listeners)]
             IN  chain = [window |-> FALSE, rect |-> 0, el |-> el,
                          log |-> NoLog("none", 1, FALSE, NoResize, el)]

NextChain ==
    \/ WindowRender
    \/ \E e \in Chain, force \in BOOLEAN, resize \in Resizes :
          Rerendered(e, force, resize)
    \/ \E e \in Chain : SetDisplay(e)

SpecChain == InitChain /\ [][NextChain]_vars

\* the call was a _rerender on an element of the window that met the
\* escalation condition
Escalates == chain.log.op = "rerender" /\ chain.window /\ chain.log.escalation

\* C22: a _rerender with a flagged axis on an element of the window that is
\* not the first one, with force or with a flagged axis that is None in its
\* size, does not render the element from _rerender, drops its desired size
\* and emits one RESIZE event; and the parent renders itself on the rect it
\* had cached, which stays cached when it is displayed, or emits a RESIZE
\* event itself
ResizeRequestGoesToParent ==
    Escalates =>
        LET e == chain.log.e
            p == chain.log.e - 1
        IN  /\ ~chain.log.direct[e]
            /\ chain.log.dropped[e]
            /\ chain.log.emits[e] = 1
            /\ \/ /\ chain.log.direct[p]
                  /\ chain.log.had[p] # 0
                  /\ chain.log.on[p] = chain.log.had[p]
                  /\ chain.el[p].display
                     => chain.el[p].render_screen = chain.log.had[p]
               \/ chain.log.emits[p] >= 1

\* an escalation whose parent rendered itself and its child
ParentRerendered ==
    /\ Escalates
    /\ chain.log.e = ChainLength
    /\ chain.log.direct[ChainLength - 1]
    /\ chain.log.rendered[ChainLength]
    /\ chain.log.emits[ChainLength - 1] = 0

\* C23: a _rerender on an element of the window that has no rect cached
\* emits one RESIZE event and does not render the element from _rerender; an
\* element whose _rerender renders it had a rect cached, met no escalation
\* condition and is rendered on that rect; and a _rerender on an element
\* without window changes nothing, emits nothing and renders nothing
RerenderRendersOnlyWithCachedRect ==
    chain.log.op = "rerender" =>
        LET e == chain.log.e
        IN  /\ (chain.window /\ chain.log.had[e] = 0)
                => (~chain.log.direct[e] /\ chain.log.emits[e] = 1)
            /\ chain.log.direct[e]
                => /\ chain.log.had[e] # 0
                   /\ ~Escalates
                   /\ chain.log.emits[e] = 0
                   /\ chain.log.on[e] = chain.log.had[e]
                   /\ chain.el[e].display
                      => chain.el[e].render_screen = chain.log.had[e]
            /\ ~chain.window
                => /\ chain.log.same
                   /\ \A x \in Chain :
                         chain.log.emits[x] = 0 /\ ~chain.log.rendered[x]

\* a _rerender without an escalation condition on an element that had no
\* rect cached, whose parent rendered it
NeverRenderedWasRequested ==
    /\ chain.log.op = "rerender"
    /\ chain.window
    /\ chain.log.e # 1
    /\ ~Escalates
    /\ chain.log.had[chain.log.e] = 0
    /\ chain.log.emits[chain.log.e] = 1
    /\ chain.log.direct[chain.log.e - 1]

\* ------------------------------------------------------------------------
\* _render on one element, with the render gate.  The element is a plain
\* DOMElement, a DOMText, a DOMTextFlex or a DOMStackLayout; whether a child
\* of the layout should render is an input of the call.  A style, a value
\* and a desired size are known by a version number (0 for None); the rects
\* offered are two visible ones and one without height.
\* ------------------------------------------------------------------------
\* the number of versions of the style, of the value and of the desired size
MaxVersions == 2

Kinds == {"DOMElement", "DOMText", "DOMTextFlex", "DOMStackLayout"}
\* the rects offered; NoRect is None
GateRects == {"visible", "moved", "empty"}
ZeroRect == "empty"
NoRect == "None"
\* _render_full_size of a layout is a list, equal to no desired size
ListSize == MaxVersions + 1

\* DOMElement.__init__, DOMText.__init__ and DOMTextFlex.__init__ for an
\* element with or without window
NewGate(kind, win) ==
    [kind |-> kind, window |-> win, display |-> TRUE, style |-> 1,
     values |-> 1, desired_size |-> 0, render_force |-> FALSE,
     render_screen |-> NoRect, render_style |-> 0, render_full_size |-> 0,
     render_values |-> 0,
     op |-> "none", rect |-> NoRect, force |-> FALSE, drew |-> FALSE]

\* DOMElement._should_render
ElementShouldRender(g, scr, force) ==
    \/ force
    \/ g.render_force
    \/ scr # g.render_screen
    \/ g.style # g.render_style
    \/ g.desired_size # g.render_full_size

\* _should_render of the class of the element; DOMTextFlex compares
\* _render_value, which nothing sets, with the string _value, and the layout
\* is asked about the rect it has cached
ShouldRender(g, scr, force, child) ==
    CASE g.kind = "DOMText" ->
            ElementShouldRender(g, scr, force) \/ g.render_values # g.values
      [] g.kind = "DOMTextFlex" -> TRUE
      [] g.kind = "DOMStackLayout" ->
            ElementShouldRender(g, g.render_screen, force) \/ child
      [] OTHER -> ElementShouldRender(g, scr, force)

\* DOMElement._can_display
CanDisplay(g, scr) == g.window /\ scr # ZeroRect

\* _render_force is left as it is
ElementRenderKeepingForce(g, scr) ==
    IF g.display
    THEN [g EXCEPT !.render_screen = scr, !.render_style = g.style]
    ELSE [g EXCEPT !.render_full_size = 0, !.render_screen = NoRect,
                   !.render_style = 0]

\* DOMElement._render
ElementRender(g, scr) ==
    IF g.display
    THEN [g EXCEPT !.render_force = FALSE, !.render_screen = scr,
                   !.render_style = g.style]
    ELSE [g EXCEPT !.render_force = FALSE, !.render_full_size = 0,
                   !.render_screen = NoRect, !.render_style = 0]

\* DOMElement.get_desired_size: the size cached, or a size computed now
DesiredNow(g) == IF g.desired_size = 0 THEN 1 ELSE g.desired_size

\* _render of the class of the element: DOMElement._render alone for a
\* plain element; for the others a return through DOMElement._render when
\* the gate is closed or the rect cannot be displayed, and else the drawing,
\* the caches of the class and DOMElement._render
GateRender(g, scr, force, child) ==
    IF g.kind = "DOMElement" THEN ElementRender(g, scr)
    ELSE IF ~ShouldRender(g, scr, force, child) \/ ~CanDisplay(g, scr)
    THEN ElementRender(g, scr)
    ELSE CASE g.kind = "DOMText" ->
                ElementRender([g EXCEPT !.drew = TRUE,
                                        !.render_values = g.values,
                                        !.desired_size = DesiredNow(g),
                                        !.render_full_size = DesiredNow(g)],
                              scr)
           [] g.kind = "DOMTextFlex" ->
                ElementRender([g EXCEPT !.drew = TRUE,
                                        !.render_full_size = g.desired_size],
                              scr)
           [] OTHER ->
                ElementRender([g EXCEPT !.drew = TRUE,
                                        !.render_full_size = ListSize],
                              scr)

GateDid(result) ==
    /\ gate' = result
    /\ UNCHANGED <<leafVars, stackVars, poll, chain, placement, sizing, search,
                   finalVars, emitterVars,
                   windowVars>>

\* the parent, the window or _rerender renders the element
Rendered(scr, force, child) ==
    /\ scr \in GateRects
    /\ child => gate.kind = "DOMStackLayout"
    /\ GateDid(GateRender([gate EXCEPT !.op = "render", !.rect = scr,
                                       !.force = force, !.drew = FALSE],
                          scr, force, child))

\* what happens to the element between two renders: its computed style is
\* replaced (set_style, _set_parent_style), it is displayed or not, its
\* value is replaced (set_value), its desired size is forgotten
\* (_update_style, _rerender) or asked for (get_desired_size by the parent),
\* or a _rerender that emits a RESIZE event leaves _render_force set
Touched(what) ==
    /\ GateDid(
        CASE what = "style" ->
                [gate EXCEPT !.op = what, !.style = (@ % MaxVersions) + 1]
          [] what = "display" -> [gate EXCEPT !.op = what, !.display = ~@]
          [] what = "value" ->
                [gate EXCEPT !.op = what, !.values = (@ % MaxVersions) + 1]
          [] what = "forget" -> [gate EXCEPT !.op = what, !.desired_size = 0]
          [] what = "desire" ->
                [gate EXCEPT !.op = what,
                             !.desired_size = (@ % MaxVersions) + 1]
          [] OTHER -> [gate EXCEPT !.op = what, !.render_force = TRUE])

Touches == {"style", "display", "value", "forget", "desire", "rerender"}

InitGate ==
    /\ InitEmitter
    /\ reentrant = FALSE
    /\ InitElements
    /\ InitLeafProbe
    /\ InitStackProbe
    /\ poll = NewWindow
    /\ InitFinalProbes
    /\ chain = Unused
    /\ placement = Unused
    /\ sizing = Unused
    /\ search = Unused
    /\ \E kind \in Kinds, win \in BOOLEAN : gate = NewGate(kind, win)

NextGate ==
    \/ \E scr \in GateRects, force, child \in BOOLEAN :
          Rendered(scr, force, child)
    \/ \E what \in Touches : Touched(what)

SpecGate == InitGate /\ [][NextGate]_vars

ChildPositions == (0 - MaxHeight)..(MaxHeight + 1)
ChildLengths == 0..MaxHeight

\* child_screen: the screen allotted without the margin of the child
MarginScreen(a, m) ==
    [size |-> <<Max(0, a.size[1] - m.left - m.right),
                Max(0, a.size[2] - m.top - m.bottom)>>,
     position |-> <<a.position[1] + m.left, a.position[2] + m.top>>,
     offset |-> a.offset]

\* left_screen, right_screen, top_screen and bottom_screen, which _clear
\* paints when they have a width and a height
MarginStrips(a, m) ==
    [left |-> [size |-> <<m.left, a.size[2]>>, position |-> a.position,
               offset |-> <<0, 0>>],
     right |-> [size |-> <<m.right, a.size[2]>>,
                position |-> <<a.position[1] + a.size[1] - m.right,
                               a.position[2]>>,
                offset |-> <<0, 0>>],
     top |-> [size |-> <<a.size[2], m.top>>, position |-> a.position,
              offset |-> <<0, 0>>],
     bottom |-> [size |-> <<a.size[2], m.bottom>>,
                 position |-> <<a.position[1],
                                a.position[2] + a.size[2] - m.bottom>>,
                 offset |-> <<0, 0>>]]

\* DOMStackLayout._render_child(screen, child, child_position,
\* child_desired_size) with the arguments chosen: the child is rendered on
\* child_screen, and the strips are cleared when it is displayed
RenderChild ==
    /\ placement.op = "arguments"
    /\ \E a \in {ChildScreen(placement.screen, placement.child_position,
                              placement.length)} :
          placement' = [placement EXCEPT
                            !.op = "render_child",
                            !.allotted = a,
                            !.child_screen = MarginScreen(a, placement.margin),
                            !.cleared = IF placement.displayed
                                        THEN MarginStrips(a, placement.margin)
                                        ELSE @,
                            !.returned = placement.length]
    /\ UNCHANGED <<leafVars, stackVars, poll, chain, gate, sizing, search,
                   finalVars, emitterVars,
                   windowVars>>

\* no strip was cleared
NoStrips ==
    [left |-> NoScreen, right |-> NoScreen, top |-> NoScreen,
     bottom |-> NoScreen]

InitPlacement ==
    /\ InitEmitter
    /\ reentrant = FALSE
    /\ InitElements
    /\ InitLeafProbe
    /\ InitStackProbe
    /\ poll = NewWindow
    /\ InitFinalProbes
    /\ chain = Unused
    /\ gate = Unused
    /\ sizing = Unused
    /\ search = Unused
    /\ \E s \in Rects, cp \in ChildPositions, len \in ChildLengths,
          m \in Margins, displayed \in BOOLEAN :
          placement = [op |-> "arguments", screen |-> s, child_position |-> cp,
                       length |-> len, margin |-> m, displayed |-> displayed,
                       allotted |-> NoScreen, child_screen |-> NoScreen,
                       cleared |-> NoStrips, returned |-> 0]

NextPlacement == RenderChild

SpecPlacement == InitPlacement /\ [][NextPlacement]_vars

\* the lines of the screen that the child covers: those from child_position
\* to child_position + length that are in the screen
Overlap(s, cp, len) ==
    {y \in 0..(s.size[2] - 1) : cp <= y /\ y < cp + len}

\* C25: every child is given a rect; the rect allotted is the part of the
\* child that is in the screen, which is empty for a child outside; and a
\* rect of the child that has a height lies in the screen of the layout on
\* the axis of the layout
ChildRectIsClipped ==
    placement.op = "render_child" =>
        LET s == placement.screen
            a == placement.allotted
            c == placement.child_screen
            o == Overlap(s, placement.child_position, placement.length)
        IN  /\ a.size[2] = Cardinality(o)
            /\ o # {} => \A y \in o :
                            /\ s.position[2] + y >= a.position[2]
                            /\ s.position[2] + y < a.position[2] + a.size[2]
            /\ o = {} => c.size[2] = 0
            /\ c.size[2] > 0
                => /\ s.position[2] <= c.position[2]
                   /\ c.position[2] + c.size[2] <= s.position[2] + s.size[2]
                   /\ a.position[2] <= c.position[2]
                   /\ c.position[2] + c.size[2] <= a.position[2] + a.size[2]

\* a child with a margin that starts above the screen: the rect allotted is
\* the part in the screen, and the child gets what the margin leaves of it
ChildCutAtTheStart ==
    /\ placement.op = "render_child"
    /\ placement.child_position < 0
    /\ placement.allotted.size[2] > 0
    /\ placement.allotted.size[2] < placement.length
    /\ placement.margin.top > 0
    /\ placement.child_screen.size[2] > 0

\* C26: after a render that placed the children, _children_positions has
\* one entry per child, the first is 0, every other one is the entry before
\* plus the length resolved for the child before, and the entries never
\* decrease, whatever offset the screen has
PositionsAreRunningSums ==
    (stack_op.op = "render" /\ stack_op.placed) =>
        LET ps == stack_render.children_positions
            res == stack_op.resolved
        IN  /\ Len(ps) = Len(stack_lengths)
            /\ Len(res) = Len(stack_lengths)
            /\ ps # <<>> => ps[1] = 0
            /\ \A i \in 1..(Len(ps) - 1) :
                  /\ ps[i + 1] = ps[i] + res[i]
                  /\ ps[i] <= ps[i + 1]

\* a render of children that do not fit, on a screen that is scrolled
PlacedWhileScrolled ==
    /\ stack_op.op = "render"
    /\ stack_op.placed
    /\ stack_render.render_screen.offset[2] < 0
    /\ Len(stack_render.children_positions) = MaxStack
    /\ stack_render.children_positions[MaxStack] > 1

\* the cells of the four strips that _clear paints
StripCells(c) ==
    Cells(c.left) \cup Cells(c.right) \cup Cells(c.top) \cup Cells(c.bottom)

\* the rect allotted has room for the margin of the child
MarginFits ==
    /\ placement.margin.left + placement.margin.right <= placement.allotted.size[1]
    /\ placement.margin.top + placement.margin.bottom <= placement.allotted.size[2]

\* C27: for a displayed child whose margin fits in the rect allotted,
\* child_screen is the rect allotted without the margin, the strips cleared
\* lie in the rect allotted and cover it together with child_screen, a top
\* or bottom strip that has a height is as wide as the rect allotted and a
\* left or right strip that has a width is as high
MarginStripsFrameChild ==
    (placement.op = "render_child" /\ placement.displayed /\ MarginFits) =>
        LET a == placement.allotted
            c == placement.child_screen
            m == placement.margin
            strips == placement.cleared
        IN  /\ c.position = <<a.position[1] + m.left, a.position[2] + m.top>>
            /\ c.size = <<a.size[1] - m.left - m.right,
                          a.size[2] - m.top - m.bottom>>
            /\ StripCells(strips) \subseteq Cells(a)
            /\ StripCells(strips) \cup Cells(c) = Cells(a)
            /\ m.top > 0 => strips.top.size[1] = a.size[1]
            /\ m.bottom > 0 => strips.bottom.size[1] = a.size[1]
            /\ m.left > 0 => strips.left.size[2] = a.size[2]
            /\ m.right > 0 => strips.right.size[2] = a.size[2]

\* the greatest number of a set that is not empty
SetMax(S) == CHOOSE x \in S : \A y \in S : y <= x

\* the cross length of child i after a render: the width in the size the
\* child cached (_render_full_size, the desired size of a text leaf, which is
\* FULL_LENGTH wide here), or the width of the rect it was rendered on
CrossLength(reading, i) ==
    IF reading = "cached" THEN FULL_LENGTH
    ELSE stack_child[i].render_screen.size[1]

\* C28: after a render that placed the children of a layout that has
\* children, _render_full_size is, on the axis of the layout, the sum of the
\* lengths resolved for the children, and on the other axis the greatest
\* cross length of the children (by the size they cached, or by the rect they
\* were rendered on)
RenderedSizeIsMaxAndSum ==
    (stack_op.op = "render" /\ stack_op.placed /\ stack_lengths # <<>>) =>
        /\ stack_render.render_full_size[2]
              = SumTo(stack_op.resolved, Len(stack_lengths))
        /\ \E reading \in {"cached", "drawn"} :
              stack_render.render_full_size[1]
                 = SetMax({CrossLength(reading, i) : i \in DOMAIN stack_lengths})

\* the half of the property above that is about the axis of the layout
RenderedLengthIsSum ==
    (stack_op.op = "render" /\ stack_op.placed /\ stack_lengths # <<>>) =>
        stack_render.render_full_size[2]
            = SumTo(stack_op.resolved, Len(stack_lengths))

\* ------------------------------------------------------------------------
\* The desired size of a DOMStackLayout.
\* ------------------------------------------------------------------------
\* the number of children of the layout whose desired size is asked
MaxSized == 2

Orientations == {"horizontal", "vertical"}
\* the index of the axis of the layout in a size, and of the other axis
Orientation(o) == IF o = "horizontal" THEN 1 ELSE 2
OppositeOrientation(o) == IF o = "horizontal" THEN 2 ELSE 1

\* the sizes of the computed style of the layout, and the desired sizes its
\* children answer: any cross length, one line or column along the layout
OwnLengths == {GROW_LENGTH, FULL_LENGTH, 1}
ChildLength(o) == [a \in 1..2 |-> IF a = Orientation(o) THEN {1}
                                  ELSE {FULL_LENGTH} \cup 0..(MaxFixed + 1)]
ChildSizes(o) == ChildLength(o)[1] \X ChildLength(o)[2]

\* a child is added to a length that is full already
AddLengthToFull(length, child_length) ==
    IF child_length = FULL_LENGTH THEN FULL_LENGTH ELSE length + child_length

\* one axis of the loop over the children: a child of full length makes the
\* length full, another child is added unless the length is full
AddLength(length, child_length) ==
    IF child_length = FULL_LENGTH THEN FULL_LENGTH
    ELSE IF length # FULL_LENGTH THEN length + child_length
    ELSE length

RECURSIVE SizeOfChildren(_, _, _)
\* the loop of DOMStackLayout._calculate_desired_size over the first n
\* children: only an axis on which the computed size is None changes
SizeOfChildren(st, kids, n) ==
    IF n = 0
    THEN <<IF st.size[1] # GROW_LENGTH THEN st.size[1] ELSE 0,
           IF st.size[2] # GROW_LENGTH THEN st.size[2] ELSE 0>>
    ELSE LET size == SizeOfChildren(st, kids, n - 1)
         IN  [a \in 1..2 |->
                IF st.size[a] = GROW_LENGTH
                THEN AddLength(size[a], kids[n][a]) ELSE size[a]]

\* DOMStackLayout._calculate_desired_size on the computed style st: the
\* answer of DOMElement._calculate_desired_size unless that raises
StackDesiredSize(st, kids) ==
    IF ~LeafDesiredSize(st).raised THEN LeafDesiredSize(st).size
    ELSE CalculateStyledSize(st, SizeOfChildren(st, kids, Len(kids)))

\* layout.get_desired_size(max_size) of a layout that was not asked before
AskStackSize ==
    /\ sizing.op = "arguments"
    /\ sizing' = [sizing EXCEPT !.op = "desired",
                     !.size = StackDesiredSize(sizing.style, sizing.children)]
    /\ UNCHANGED <<leafVars, stackVars, poll, chain, gate, placement, search,
                   finalVars, emitterVars,
                   windowVars>>

\* a layout of either orientation with any computed style and children
InitSizing ==
    /\ InitEmitter
    /\ reentrant = FALSE
    /\ InitElements
    /\ InitLeafProbe
    /\ InitStackProbe
    /\ poll = NewWindow
    /\ InitFinalProbes
    /\ chain = Unused
    /\ gate = Unused
    /\ placement = Unused
    /\ search = Unused
    /\ \E o \in Orientations, n \in 0..MaxSized :
       \E st \in [size : OwnLengths \X OwnLengths, margin : Margins,
                  display : Displays],
          kids \in [1..n -> ChildSizes(o)] :
            sizing = [op |-> "arguments", orientation |-> o, style |-> st,
                      children |-> kids, size |-> NoSize]

NextSizing == AskStackSize

SpecSizing == InitSizing /\ [][NextSizing]_vars

\* the margins of the style on axis a
MarginsOn(st, a) ==
    IF a = 1 THEN st.margin.left + st.margin.right
    ELSE st.margin.top + st.margin.bottom

\* the desired size was asked of a layout whose cross size is None
CrossIsAuto ==
    /\ sizing.op = "desired"
    /\ sizing.style.size[OppositeOrientation(sizing.orientation)] = GROW_LENGTH

\* the desired cross length is FULL_LENGTH exactly when a child's is, and the
\* sum of the children's cross lengths plus the margins of the layout else
CrossIsFullOrSum ==
    LET a == OppositeOrientation(sizing.orientation)
        cross == [i \in DOMAIN sizing.children |-> sizing.children[i][a]]
    IN  IF \E i \in DOMAIN cross : cross[i] = FULL_LENGTH
        THEN sizing.size[a] = FULL_LENGTH
        ELSE /\ sizing.size[a] # FULL_LENGTH
             /\ sizing.size[a] = SumTo(cross, Len(cross))
                                   + MarginsOn(sizing.style, a)

\* C29: the desired cross length of a displayed layout whose cross size is
\* None is FULL_LENGTH exactly when the desired cross length of one of its
\* children is, wherever that child stands, and the sum of the children's
\* desired cross lengths plus the margins of the layout else
DisplayedCrossIsFullOrSum ==
    (CrossIsAuto /\ sizing.style.display = "block") => CrossIsFullOrSum

\* C29 as stated, for a layout that is not displayed as well
AnyCrossIsFullOrSum == CrossIsAuto => CrossIsFullOrSum

\* a displayed layout whose first child fills the cross axis and whose
\* second child does not
FullChildBeforeFixedChild ==
    /\ CrossIsAuto
    /\ sizing.style.display = "block"
    /\ Len(sizing.children) = 2
    /\ sizing.children[1][OppositeOrientation(sizing.orientation)] = FULL_LENGTH
    /\ sizing.children[2][OppositeOrientation(sizing.orientation)] = 1
    /\ sizing.size[OppositeOrientation(sizing.orientation)] = FULL_LENGTH

\* ------------------------------------------------------------------------
\* The search of the position cache.
\* ------------------------------------------------------------------------
\* the children of a layout as a render leaves them: the length resolved for
\* each, and whether it is displayed; a child that is not displayed has no
\* length
SearchedChildren ==
    UNION {[1..n -> {c \in [length : 0..(MaxFixed + 1), displayed : BOOLEAN] :
                        ~c.displayed => c.length = 0}] : n \in 0..MaxStack}
\* the coordinates searched, counted from the start of the content
SearchedPositions == (0 - 1)..(MaxStack * (MaxFixed + 1) + 1)

\* _children_positions after a render of the children cs
PositionsOf(cs) == [i \in DOMAIN cs |-> SumTo([j \in DOMAIN cs |-> cs[j].length], i - 1)]

RECURSIVE FindChildIndexAmong(_, _, _, _, _)
\* DOMStackLayout.find_child_index_at_position with left and right given, on
\* the children cs with the position cache ps, indices counted from 1
FindChildIndexAmong(cs, ps, position, left, right) ==
    IF left <= right
    THEN LET mid == left + ((right - left) \div 2)
             found == {index \in left..right :
                          ps[index] = position /\ cs[index].displayed}
         IN  IF ps[mid] = position
             THEN IF found # {}
                  THEN CHOOSE index \in found : \A j \in found : index <= j
                  ELSE mid
             ELSE IF ps[mid] > position
             THEN FindChildIndexAmong(cs, ps, position, left, mid - 1)
             ELSE FindChildIndexAmong(cs, ps, position, mid + 1, right)
    ELSE Max(1, Min(Len(cs), right))

\* layout.find_child_index_at_position(position, relative=True)
FindChild ==
    /\ search.op = "arguments"
    /\ search' = [search EXCEPT !.op = "found",
                     !.index = FindChildIndexAmong(search.children,
                                   PositionsOf(search.children),
                                   search.position, 1, Len(search.children))]
    /\ UNCHANGED <<leafVars, stackVars, poll, chain, gate, placement, sizing,
                   finalVars, emitterVars,
                   windowVars>>

InitSearch ==
    /\ InitEmitter
    /\ reentrant = FALSE
    /\ InitElements
    /\ InitLeafProbe
    /\ InitStackProbe
    /\ poll = NewWindow
    /\ InitFinalProbes
    /\ chain = Unused
    /\ gate = Unused
    /\ placement = Unused
    /\ sizing = Unused
    /\ \E cs \in SearchedChildren, position \in SearchedPositions :
          search = [op |-> "arguments", children |-> cs,
                    position |-> position, index |-> 0]

NextSearch == FindChild

SpecSearch == InitSearch /\ [][NextSearch]_vars

\* child i occupies the coordinate p
Occupies(cs, i, p) ==
    PositionsOf(cs)[i] <= p /\ p < PositionsOf(cs)[i] + cs[i].length

\* C30: the index found in a position cache with one entry per child is that
\* of the child occupying the coordinate (the last child that starts at or
\* before it); before the first child it is the first index, and past the
\* last child the last index, or that of a child that starts where the last
\* one does
SearchFindsOccupyingChild ==
    (search.op = "found" /\ search.children # <<>>) =>
        LET cs == search.children
            ps == PositionsOf(cs)
            p == search.position
            n == Len(cs)
        IN  /\ search.index \in 1..n
            /\ \A i \in 1..n : Occupies(cs, i, p) => search.index = i
            /\ p < ps[1] => search.index = 1
            /\ p >= ps[n] + cs[n].length => ps[search.index] = ps[n]

\* ------------------------------------------------------------------------
\* Hit testing in a layout that holds layouts.  The outer layout is vertical
\* and rendered at Origin without offset; a child is a text or a vertical
\* layout whose own children (inner of them) are texts one line high.
\* ------------------------------------------------------------------------
\* the most children the layout inside has
MaxInner == 1

HitChildren ==
    UNION {[1..n -> {c \in [layout : BOOLEAN, length : 0..(MaxFixed + 1),
                            displayed : BOOLEAN, inner : 0..MaxInner] :
                        /\ ~c.displayed => c.length = 0
                        /\ ~c.layout => c.inner = 0}] : n \in 0..MaxChildren}
HitScreens == [size : Widths \X (1..MaxHeight), position : {Origin},
               offset : {<<0, 0>>}]
HitPositions == (0..(MaxHeight + 2)) \X (0..(MaxHeight + 2))

\* the screen child i of the layout was rendered on
HitChildScreen(s, cs, i) ==
    ChildScreen(s, PositionsOf(cs)[i] + s.offset[2], cs[i].length)

\* the children of the layout inside, and the index found in a layout
InnerChildren(c) == [j \in 1..c.inner |-> [length |-> 1, displayed |-> TRUE]]
HitIndex(s, cs, p) ==
    FindChildIndexAmong(cs, PositionsOf(cs),
                        p[2] - (s.position[2] + s.offset[2]), 1, Len(cs))

\* find_descendant_at_position of the layout inside, rendered on s: None,
\* the layout itself, or one of its texts
InnerDescendant(s, c, i, p) ==
    IF ~ContainsPosition(s, p) \/ c.inner = 0 THEN <<"None">>
    ELSE LET index == HitIndex(s, InnerChildren(c), p)
         IN  IF ContainsPosition(HitChildScreen(s, InnerChildren(c), index), p)
             THEN <<"grandchild", i, index>>
             ELSE <<"child", i>>

\* the layout checks the rect of a child layout before it asks it
DescendantOfChildInside(s, cs, index, p) ==
    IF ContainsPosition(HitChildScreen(s, cs, index), p) /\ cs[index].inner > 0
    THEN InnerDescendant(HitChildScreen(s, cs, index), cs[index], index, p)
    ELSE <<"self">>

\* "elif isinstance(child, DOMLayout): return
\* child.find_descendant_at_position(position)"
DescendantOfChild(s, cs, index, p) ==
    InnerDescendant(HitChildScreen(s, cs, index), cs[index], index, p)

\* DOMStackLayout.find_descendant_at_position of the outer layout
FindDescendant(s, cs, p) ==
    IF ~ContainsPosition(s, p) \/ Len(cs) = 0 THEN <<"None">>
    ELSE LET index == HitIndex(s, cs, p)
         IN  IF ~cs[index].displayed THEN <<"self">>
             ELSE IF cs[index].layout THEN DescendantOfChild(s, cs, index, p)
             ELSE IF ContainsPosition(HitChildScreen(s, cs, index), p)
             THEN <<"child", index>>
             ELSE <<"self">>

\* DOMWindow._on_mouse_event: the element looked up for the position
FindTarget ==
    /\ hit.op = "arguments"
    /\ hit' = [hit EXCEPT !.op = "found",
                  !.index = IF hit.children = <<>> THEN 0
                            ELSE HitIndex(hit.screen, hit.children, hit.position),
                  !.found = FindDescendant(hit.screen, hit.children, hit.position)]
    /\ UNCHANGED <<leafVars, stackVars, poll, chain, gate, placement, sizing,
                   search, nest, bychild, coll, entity, emitterVars,
                   windowVars>>

InitHit ==
    /\ InitEmitter
    /\ reentrant = FALSE
    /\ InitElements
    /\ InitLeafProbe
    /\ InitStackProbe
    /\ poll = NewWindow
    /\ chain = Unused
    /\ gate = Unused
    /\ placement = Unused
    /\ sizing = Unused
    /\ search = Unused
    /\ nest = Unused
    /\ bychild = Unused
    /\ coll = Unused
    /\ entity = Unused
    /\ \E s \in HitScreens, cs \in HitChildren, p \in HitPositions :
          hit = [op |-> "arguments", screen |-> s, children |-> cs,
                 position |-> p, index |-> 0, found |-> <<"None">>]

NextHit == FindTarget

SpecHit == InitHit /\ [][NextHit]_vars

\* C31: when the child found for a position is a displayed layout, and the
\* position is outside the rect of that child or the child has no children,
\* the element found is the outer layout; and for a cell of the rect of an
\* outer layout that has children an element is found
ChildLayoutIsAskedInsideOnly ==
    hit.op = "found" =>
        /\ (/\ hit.index > 0
            /\ ContainsPosition(hit.screen, hit.position)
            /\ hit.children[hit.index].layout
            /\ hit.children[hit.index].displayed
            /\ \/ ~ContainsPosition(
                      HitChildScreen(hit.screen, hit.children, hit.index),
                      hit.position)
               \/ hit.children[hit.index].inner = 0)
           => hit.found = <<"self">>
        /\ (hit.children # <<>> /\ hit.position \in Cells(hit.screen))
           => hit.found # <<"None">>

\* ------------------------------------------------------------------------
\* A scroll region inside a scroll region.  The outer layout is the root
\* element, vertical, rendered on a rect of the window; its children are a
\* text (above lines), the inner layout, and a text (below lines).  The
\* inner layout is vertical and its children are texts of content lines in
\* all.  Both scroll by line, and a layout is the record of the height in
\* its style (length), the lines of its children (content), the height and
\* the vertical offset of the screen it cached, and whether it was rendered
\* on a visible screen (_render_full_size is set then).
\* ------------------------------------------------------------------------
NestKeys == {"down", "up", "page_down", "page_up"}

\* the offset _on_mouse_event and _on_keyboard_event of layout l pass to
\* _move
NestOffset(l, key) ==
    CASE key = "down" -> 1
      [] key = "up" -> -1
      [] key = "page_down" -> l.size
      [] key = "page_up" -> -l.size

\* the layout moves although the offset stays
MovesAlways(l, key) == TRUE

\* _move and _move_by_line of layout l: whether the layout sets
\* stop_propagation and renders itself again
Moves(l, key) ==
    /\ l.content > l.size
    /\ l.length # GROW_LENGTH
    /\ ClampedOffset(l.size - l.content, l.offset, NestOffset(l, key)) # l.offset

\* DOMStackLayout._render of layout l on a screen of the given height and
\* offset: the screen is cached, with its offset reset when the children fit
NestRender(l, size, offset) ==
    IF size = 0 THEN [l EXCEPT !.size = 0, !.offset = offset]
    ELSE [l EXCEPT !.size = size, !.full = TRUE,
                   !.offset = IF l.content <= size THEN 0 ELSE offset]

\* the height the inner layout desires
InnerLength(inner) ==
    IF inner.length = GROW_LENGTH THEN inner.content ELSE inner.length

\* DOMStackLayout._render of the outer layout on a screen of the given
\* height and offset, which renders the inner layout on the rect
\* _render_child allots to it
NestRenderOuter(n, size, offset) ==
    Then(NestRender(n.outer, size, offset), LAMBDA outer :
        LET cp == outer.offset + n.above
        IN  [n EXCEPT !.outer = outer,
                      !.inner = NestRender(n.inner,
                                    Max(Min(InnerLength(n.inner) + Min(cp, 0),
                                            size - Max(cp, 0)), 0),
                                    Min(cp, 0))])

\* _move_by_line and _render_move of the inner layout, on the height it has
NestMoveInner(n, key) ==
    [n EXCEPT !.inner = NestRender(n.inner, n.inner.size,
                            ClampedOffset(n.inner.size - n.inner.content,
                                          n.inner.offset,
                                          NestOffset(n.inner, key)))]

\* _move_by_line and _render_move of the outer layout
NestMoveOuter(n, key) ==
    NestRenderOuter(n, n.outer.size,
                    ClampedOffset(n.outer.size - n.outer.content,
                                  n.outer.offset, NestOffset(n.outer, key)))

\* the event is emitted again whatever stop_propagation is
BubblesAlways(stopped) == TRUE

\* DOMLayout._on_child_event: "if event.stop_propagation: return"
Bubbles(stopped) == ~stopped

\* what an event did: on is the layout it was given to first; inner_stopped
\* and outer_stopped whether that layout set stop_propagation; outer_called
\* whether the outer layout emitted the event to its own observers; before
\* and between the layouts before the event and after the handler of the
\* inner one
NestLog(key, on, before, between, inner_stopped, outer_called, outer_stopped) ==
    [op |-> key, on |-> on, before |-> before, between |-> between,
     inner_stopped |-> inner_stopped, outer_called |-> outer_called,
     outer_stopped |-> outer_stopped]

NestDid(result, log) ==
    /\ nest' = [result EXCEPT !.log = log]
    /\ UNCHANGED <<leafVars, stackVars, poll, chain, gate, placement, sizing,
                   search, hit, bychild, coll, entity, emitterVars,
                   windowVars>>

\* a wheel or key event is emitted by a text of the inner layout: the inner
\* layout emits it to its own observers (_on_mouse_event or
\* _on_keyboard_event), then _on_child_event of the outer layout hears it
ScrollInner(key) ==
    /\ nest.op = "rendered"
    /\ nest.inner.full
    /\ LET stopped == Moves(nest.inner, key)
           between == IF stopped THEN NestMoveInner(nest, key) ELSE nest
           called == Bubbles(stopped)
           moved == called /\ Moves(between.outer, key)
       IN  NestDid(IF moved THEN NestMoveOuter(between, key) ELSE between,
                   NestLog(key, "inner",
                           [inner |-> nest.inner, outer |-> nest.outer],
                           [inner |-> between.inner, outer |-> between.outer],
                           stopped, called, moved))

\* the event is emitted by a text of the outer layout
ScrollOuter(key) ==
    /\ nest.op = "rendered"
    /\ LET moved == Moves(nest.outer, key)
       IN  NestDid(IF moved THEN NestMoveOuter(nest, key) ELSE nest,
                   NestLog(key, "outer",
                           [inner |-> nest.inner, outer |-> nest.outer],
                           [inner |-> nest.inner, outer |-> nest.outer],
                           FALSE, TRUE, moved))

\* window.run: the outer layout is rendered on the rect of the screen, the
\* inner layout on a visible part of it
InitNest ==
    /\ InitEmitter
    /\ reentrant = FALSE
    /\ InitElements
    /\ InitLeafProbe
    /\ InitStackProbe
    /\ poll = NewWindow
    /\ chain = Unused
    /\ gate = Unused
    /\ placement = Unused
    /\ sizing = Unused
    /\ search = Unused
    /\ hit = Unused
    /\ bychild = Unused
    /\ coll = Unused
    /\ entity = Unused
    /\ \E above \in 0..MaxFixed, below \in 0..MaxFixed, height \in 1..MaxHeight,
          inner_length \in {GROW_LENGTH} \cup 1..(MaxFixed + 1),
          inner_content \in 1..MaxStack,
          outer_length \in {GROW_LENGTH, FULL_LENGTH} :
          LET inner == [length |-> inner_length, content |-> inner_content,
                        size |-> 0, offset |-> 0, full |-> FALSE]
              outer == [length |-> outer_length,
                        content |-> above + InnerLength(inner) + below,
                        size |-> 0, offset |-> 0, full |-> FALSE]
          IN  /\ above < height
              /\ nest = [NestRenderOuter(
                            [op |-> "rendered", above |-> above,
                             inner |-> inner, outer |-> outer,
                             log |-> NestLog("none", "none", <<>>, <<>>,
                                             FALSE, FALSE, FALSE)],
                            height, 0) EXCEPT !.op = "rendered"]

NextNest ==
    \/ \E key \in NestKeys : ScrollInner(key)
    \/ \E key \in NestKeys : ScrollOuter(key)

SpecNest == InitNest /\ [][NextNest]_vars

\* the last event was given to the inner layout
InnerHeard == nest.op = "rendered" /\ nest.log.on = "inner"

\* C32: an event given to the inner layout is consumed by it exactly when
\* the offset of its screen changed, which it does not when the clamped
\* offset is the offset it has; an event it consumed does not reach the
\* observers of the outer layout and leaves the outer layout as it is; an
\* event it did not consume reaches them, and the outer layout consumes it
\* exactly when the offset of its own screen changed
ScrollIsConsumedWhenItMoves ==
    InnerHeard =>
        LET log == nest.log
            was == log.before.inner
        IN  /\ log.inner_stopped <=> log.between.inner.offset # was.offset
            /\ ClampedOffset(was.size - was.content, was.offset,
                             NestOffset(was, log.op)) = was.offset
               => ~log.inner_stopped
            /\ log.inner_stopped
               => /\ ~log.outer_called
                  /\ nest.outer = log.before.outer
                  /\ nest.inner = log.between.inner
            /\ ~log.inner_stopped
               => /\ log.outer_called
                  /\ log.between.inner = was
                  /\ log.outer_stopped
                     <=> nest.outer.offset # log.before.outer.offset

\* the inner layout was at the end of its content, more than a line from
\* its start, and the outer layout scrolled
InnerAtEdgeOuterScrolls ==
    /\ InnerHeard
    /\ nest.log.op = "down"
    /\ nest.log.before.inner.offset
          = nest.log.before.inner.size - nest.log.before.inner.content
    /\ nest.log.before.inner.offset < 0
    /\ nest.log.outer_stopped
    /\ nest.outer.offset < nest.log.before.outer.offset

\* ------------------------------------------------------------------------
\* A layout that scrolls by child (Scroll.CHILD in its style).  It is
\* vertical, attached to a running window and rendered; its children are
\* displayed texts.  holder is the child window.focused_element is (0 when
\* it is None or an element outside the layout), index is
\* _focused_child_index (0 for None); children are counted from 1.
\* ------------------------------------------------------------------------
ChildKeys == {"down", "up", "page_down", "page_up", "right", "left"}

\* the offset _on_keyboard_event passes to _move
ChildStep(b, key) ==
    CASE key = "down" -> 1
      [] key = "up" -> -1
      [] key = "page_down" -> b.size
      [] key = "page_up" -> -b.size
      [] key = "right" -> 4
      [] key = "left" -> -4

\* what a call did: stopped is event.stop_propagation, raised whether a
\* TypeError left the call, was the layout before the call.  The window
\* logs and drops an error of a mouse event (DOMWindow._on_mouse_event), and
\* exits on an error of a key press (DOMWindow._run): op is "exited" then
ByChildLog(op, arg, stopped, raised, was) ==
    [op |-> op, arg |-> arg, stopped |-> stopped, raised |-> raised,
     was |-> was]

\* child_desired_size = child.get_desired_size(): the call lacks max_size,
\* the parameter of DOMElement.get_desired_size that has no default
DesiredSizeRaises == TRUE

\* DOMStackLayout._ensure_focus_visible(index) of a rendered layout: b is
\* [layout, raised]
EnsureFocusVisible(b, index) ==
    IF index = b.layout.index THEN b
    ELSE IF DesiredSizeRaises
    THEN [layout |-> [b.layout EXCEPT !.index = index], raised |-> TRUE]
    ELSE LET l == b.layout
             position == SumTo(l.lengths, index - 1)
             bottom_min_offset == l.size - (position + l.lengths[index])
             top_max_offset == 0 - position
         IN  [layout |-> [l EXCEPT !.index = index,
                             !.offset = IF bottom_min_offset < l.offset
                                        THEN bottom_min_offset
                                        ELSE IF top_max_offset > l.offset
                                        THEN top_max_offset ELSE @],
              raised |-> FALSE]

\* child.focus() of child i: nothing when the child holds the focus; else
\* the window is told, and the FOCUS event the child emits is heard by
\* DOMStackLayout._on_child_event
ChildFocus(b, i) ==
    IF b.layout.holder = i THEN b
    ELSE EnsureFocusVisible([b EXCEPT !.layout.holder = i], i)


\* max(0, min(len(self._children) - 1, self._focused_child_index + offset))
ClampedIndex(l, step) == Max(1, Min(Len(l.lengths), l.index + step))

\* DOMStackLayout._move_by_child(offset, event), after stop_propagation
MoveByChild(b, step) ==
    IF b.layout.lengths = <<>> THEN b
    ELSE IF b.layout.index = 0
    THEN ChildFocus(b, IF step >= 0 THEN 1 ELSE Len(b.layout.lengths))
    ELSE ChildFocus(b, ClampedIndex(b.layout, step))

ByChildDid(op, arg, stopped, result) ==
    /\ bychild' = [result.layout EXCEPT
                      !.op = IF op = "key" /\ result.raised THEN "exited"
                             ELSE @,
                      !.log = ByChildLog(op, arg, stopped, result.raised,
                                         [bychild EXCEPT !.log = <<>>])]
    /\ UNCHANGED <<leafVars, stackVars, poll, chain, gate, placement, sizing,
                   search, hit, nest, coll, entity, emitterVars,
                   windowVars>>

\* a key event reaches the observers of the layout: _on_keyboard_event and
\* _move
ChildKeyPress(key) ==
    /\ bychild.op = "rendered"
    /\ key \in ChildKeys
    /\ LET moves == /\ bychild.length # GROW_LENGTH
                    /\ MoveOrientation(key) = 2
       IN  ByChildDid("key", key, moves,
                      IF moves
                      THEN MoveByChild([layout |-> bychild, raised |-> FALSE],
                                       ChildStep(bychild, key))
                      ELSE [layout |-> bychild, raised |-> FALSE])

\* child.focus() of child i, as a click on the child calls it
FocusChild(i) ==
    /\ bychild.op = "rendered"
    /\ i \in DOMAIN bychild.lengths
    /\ ByChildDid("focus", i, FALSE,
                  ChildFocus([layout |-> bychild, raised |-> FALSE], i))

\* an element outside the layout takes the focus, or the holder blurs
FocusLeaves ==
    /\ bychild.op = "rendered"
    /\ bychild.holder # 0
    /\ ByChildDid("leave", 0, FALSE,
                  [layout |-> [bychild EXCEPT !.holder = 0], raised |-> FALSE])

\* a layout with a height of FULL_LENGTH or None in its style, rendered on
\* a screen at offset 0
InitByChild ==
    /\ InitEmitter
    /\ reentrant = FALSE
    /\ InitElements
    /\ InitLeafProbe
    /\ InitStackProbe
    /\ poll = NewWindow
    /\ chain = Unused
    /\ gate = Unused
    /\ placement = Unused
    /\ sizing = Unused
    /\ search = Unused
    /\ hit = Unused
    /\ nest = Unused
    /\ coll = Unused
    /\ entity = Unused
    /\ \E n \in 0..MaxStack, height \in 1..MaxHeight,
          length \in {FULL_LENGTH, GROW_LENGTH} :
       \E lengths \in [1..n -> 1..(MaxFixed + 1)] :
          bychild = [op |-> "rendered", length |-> length, lengths |-> lengths,
                     size |-> height, offset |-> 0, index |-> 0, holder |-> 0,
                     log |-> ByChildLog("none", 0, FALSE, FALSE, <<>>)]

NextByChild ==
    \/ \E key \in ChildKeys : ChildKeyPress(key)
    \/ \E i \in 1..MaxStack : FocusChild(i)
    \/ FocusLeaves

SpecByChild == InitByChild /\ [][NextByChild]_vars

\* C33: in a layout with a height of its own that tracks child i, an arrow
\* or page key along the layout returns with child clamp(i + step) holding
\* the focus and tracked, and with the event consumed, at the ends as well;
\* a key across the layout changes nothing and leaves the event unconsumed
KeyMovesFocusByChild ==
    (/\ bychild.op \in {"rendered", "exited"}
     /\ bychild.log.op = "key"
     /\ bychild.length # GROW_LENGTH
     /\ bychild.log.was.index # 0) =>
        LET log == bychild.log
        IN  IF MoveOrientation(log.arg) = 2
            THEN /\ ~log.raised
                 /\ log.stopped
                 /\ bychild.index = Max(1, Min(Len(bychild.lengths),
                                        log.was.index + ChildStep(log.was, log.arg)))
                 /\ bychild.holder = bychild.index
            ELSE /\ ~log.raised
                 /\ ~log.stopped
                 /\ [bychild EXCEPT !.log = <<>>] = log.was

\* child i of the layout is within the part of the content the screen shows
InView(l, i) ==
    /\ 0 - l.offset <= SumTo(l.lengths, i - 1)
    /\ SumTo(l.lengths, i) <= l.size - l.offset

\* C34: when a child of the layout takes the focus, the handling of the
\* FOCUS event returns; a child that was in view leaves the offset as it
\* was; a child that was not, and is not longer than the screen, is in view
\* afterwards, with its end at the end of the screen or its start at the
\* start, and the offset is within [-(content - screen), 0]
FocusedChildIsBroughtInView ==
    (/\ bychild.op = "rendered"
     /\ bychild.log.op = "focus"
     /\ bychild.holder # bychild.log.was.holder) =>
        LET i == bychild.log.arg
            was == bychild.log.was
            content == SumTo(bychild.lengths, Len(bychild.lengths))
        IN  /\ ~bychild.log.raised
            /\ InView(was, i) => bychild.offset = was.offset
            /\ (~InView(was, i) /\ bychild.lengths[i] <= bychild.size)
               => /\ InView(bychild, i)
                  /\ \/ SumTo(bychild.lengths, i) = bychild.size - bychild.offset
                     \/ SumTo(bychild.lengths, i - 1) = 0 - bychild.offset
                  /\ bychild.offset \in (0 - Max(0, content - bychild.size))..0

\* ------------------------------------------------------------------
\* EventEmitter between emissions

\* C35: whenever no emit call is in progress the emitting flag is false and
\* the queue of pending operations is empty, so that an on or off outside
\* an emission takes effect at once; also after an emission in which an
\* observer raised and after nested emissions
EmitterAtRestIsReady ==
    Idle => /\ emitting = FALSE
            /\ pending_operations = <<>>


\* ------------------------------------------------------------------
\* DOMLayout.remove_child and the observers of the removed element

\* layout l has a handler among the observers of element e:
\* _on_child_event among the global ones or _on_child_resize among those of
\* RESIZE, which emit calls and which render l again or emit on l
Hears(l, e) ==
    \/ Count(child_observers[e], l) > 0
    \/ l \in resize_observers[e]

\* C36: after remove_child(i) the events of the removed element, resize
\* requests included, invoke no handler of the former parent layout, and
\* so neither render it again nor make it emit
RemovedChildIsNotHeard ==
    [][\A l \in layouts : \A e \in Elements :
        (/\ last_op'.op = "remove_child"
         /\ ~last_op'.raised
         /\ Count(children[l], e) > 0
         /\ Count(children'[l], e) = 0)
        => ~Hears(l, e)']_vars


\* ------------------------------------------------------------------------
\* A scrolled layout whose content changes.  The layout is the root element
\* of a running window, vertical, with the height FULL_LENGTH in its style;
\* its children are DOMText leaves that grow with their lines.
\* ------------------------------------------------------------------------
\* the rects DOMWindow.render offers to the root element: no offset
WindowRects == {rect \in Rects : rect.offset = <<0, 0>>}

\* what a call that changes the children leaves in the variables of the
\* layout
ContentDid(op, ls, result) ==
    \E out \in {result} :
    /\ stack_lengths' = ls
    /\ stack_render' = out.render
    /\ stack_child' = out.child
    /\ stack_op' = [op |-> op, rect |-> out.render.render_screen,
                    force |-> FALSE, same |-> FALSE, draws |-> out.draws,
                    resolved |-> out.resolved, placed |-> out.placed]
    /\ UNCHANGED <<stack_size, stack_text, leafVars, poll, laterVars,
                   emitterVars, windowVars>>

\* DOMElement._rerender of the root element: nothing is rendered before the
\* first render (a RESIZE event is emitted), else _render(self._render_screen)
\* with _render_force set, which places the children on a visible screen
StackRerender(text, ls, r, cs) ==
    IF r.render_screen = NoScreen
    THEN [render |-> r, child |-> cs, draws |-> 0, resolved |-> <<>>,
          placed |-> FALSE]
    ELSE IF ~IsVisible(r.render_screen)
    THEN Then([i \in DOMAIN ls |-> LeafRender(text, cs[i], r.render_screen, FALSE)],
              LAMBDA leaves :
                 [render |-> [r EXCEPT !.render_style = TRUE],
                  child |-> [i \in DOMAIN ls |-> leaves[i].cache],
                  draws |-> SumTo([i \in DOMAIN ls |-> leaves[i].draws], Len(ls)),
                  resolved |-> <<>>, placed |-> FALSE])
    ELSE StackPlace(text, ls, cs, r.render_screen, FALSE)

\* DOMStackLayout.move_min(VERTICAL) and move_max(VERTICAL): the offset they
\* move the layout to
MoveTarget(op) ==
    IF op = "move_min"
    THEN stack_render.render_screen.size[2] - stack_render.render_full_size[2]
    ELSE 0

\* layout.move_min(VERTICAL) or layout.move_max(VERTICAL) on a layout that
\* was rendered and displayed
MoveTo(op) ==
    /\ stack_render.render_full_size # NoSize
    /\ LET s == stack_render.render_screen
       IN  IF s.offset[2] = MoveTarget(op)
           THEN StackDid(op, s, FALSE,
                         [render |-> stack_render, child |-> stack_child,
                          draws |-> 0, resolved |-> <<>>, placed |-> FALSE])
           ELSE StackDid(op, [s EXCEPT !.offset[2] = MoveTarget(op)], FALSE,
                         StackRender(stack_text, stack_lengths, stack_render,
                                     stack_child,
                                     [s EXCEPT !.offset[2] = MoveTarget(op)],
                                     FALSE))

\* layout.add_child(DOMText of the given lines)
AppendChild(length) ==
    /\ Len(stack_lengths) < MaxStack
    /\ ContentDid("add_child", Append(stack_lengths, length),
                  StackRerender(stack_text, Append(stack_lengths, length),
                                stack_render, Append(stack_child, NewLeaf)))

\* layout.remove_child(index): "del self._children_positions[index]" raises
\* IndexError when the cache has no such entry, after the child left the
\* list
DropChild(index) ==
    /\ index < Len(stack_lengths)
    /\ IF index >= Len(stack_render.children_positions)
       THEN ContentDid("remove_child raised", ListDelete(stack_lengths, index),
                       [render |-> stack_render,
                        child |-> ListDelete(stack_child, index),
                        draws |-> 0, resolved |-> <<>>, placed |-> FALSE])
       ELSE ContentDid("remove_child", ListDelete(stack_lengths, index),
                       StackRerender(stack_text, ListDelete(stack_lengths, index),
                                     stack_render,
                                     ListDelete(stack_child, index)))

\* child.set_value(lines) of the child at index, which emits RESIZE: the
\* child forgets its desired size and _on_child_resize renders the layout
\* again
SetValue(index, length) ==
    /\ index < Len(stack_lengths)
    /\ stack_lengths[index + 1] # length
    /\ stack_render.render_screen # NoScreen
    /\ ContentDid("set_value", [stack_lengths EXCEPT ![index + 1] = length],
                  StackRerender(stack_text,
                                [stack_lengths EXCEPT ![index + 1] = length],
                                stack_render,
                                [stack_child EXCEPT ![index + 1].desired_size = FALSE,
                                                    ![index + 1].render_values = FALSE]))

\* DOMWindow.render(True) after a resize of the terminal
WindowRerender(rect) == stack_op.op # "none" /\ RenderStack(rect, TRUE)

\* a layout of DOMText children with the height FULL_LENGTH, not rendered
\* yet
InitContent ==
    /\ InitScroll
    /\ stack_size = FULL_LENGTH
    /\ \A i \in DOMAIN stack_lengths : stack_lengths[i] # FULL_LENGTH

NextContent ==
    \/ \E rect \in WindowRects : FirstRender(rect)
    \/ \E rect \in WindowRects : WindowRerender(rect)
    \/ \E key \in NestKeys : Scroll(key)
    \/ \E op \in {"move_min", "move_max"} : MoveTo(op)
    \/ \E length \in 1..(MaxFixed + 1) : AppendChild(length)
    \/ \E index \in 0..(MaxStack - 1) : DropChild(index)
    \/ \E index \in 0..(MaxStack - 1), length \in 1..(MaxFixed + 1) :
          SetValue(index, length)

SpecContent == InitContent /\ [][NextContent]_vars

\* C37: in a rendered stack layout whose main-axis size is not Auto the
\* cached main-axis offset o satisfies
\* -max(0, content_length - visible_length) <= o <= 0 after any sequence of
\* scrolls by line, move_min and move_max calls, additions and removals of
\* children, changes of content and renders
OffsetWithinContent ==
    (/\ stack_render.render_full_size # NoSize
     /\ HasLength)
    => /\ ScrollOffset <= 0
       /\ ScrollOffset >= 0 - Max(0, stack_render.render_full_size[2]
                                     - stack_render.render_screen.size[2])


\* ------------------------------------------------------------------------
\* The children of a layout and its position cache.  The layout is the one
\* of the section above; before its first render nothing renders it, as
\* when it has no window.
\* ------------------------------------------------------------------------
\* the lists of n or more texts given to the layout in one call
TextLists(n) == UNION {[1..k -> 1..(MaxFixed + 1)] : k \in n..MaxStack}

\* layout.add_children(texts)
AppendChildren(ls) ==
    /\ Len(stack_lengths) + Len(ls) <= MaxStack
    /\ ContentDid("add_children", stack_lengths \o ls,
                  StackRerender(stack_text, stack_lengths \o ls, stack_render,
                                stack_child \o [i \in DOMAIN ls |-> NewLeaf]))

\* layout.set_children(texts): _children_positions is not touched before
\* _rerender
ReplaceChildren(ls) ==
    /\ Len(ls) <= MaxStack
    /\ ContentDid("set_children", ls,
                  StackRerender(stack_text, ls, stack_render,
                                [i \in DOMAIN ls |-> NewLeaf]))

\* a render that the parent or the window did not force
RenderAgain(rect) == stack_op.op # "none" /\ RenderStack(rect, FALSE)

NextCache ==
    \/ \E rect \in WindowRects : FirstRender(rect)
    \/ \E rect \in WindowRects : WindowRerender(rect)
    \/ \E rect \in WindowRects : RenderAgain(rect)
    \/ \E length \in 1..(MaxFixed + 1) : AppendChild(length)
    \/ \E ls \in TextLists(2) : AppendChildren(ls)
    \/ \E ls \in TextLists(0) : ReplaceChildren(ls)
    \/ \E index \in 0..(MaxStack - 1) : DropChild(index)

SpecCache == InitContent /\ [][NextCache]_vars

\* C38: after any sequence of construction with children, add_child,
\* add_children, set_children, remove_child and render, skipped renders
\* included, the position cache of the layout has exactly one entry per
\* child, and no remove_child with a valid index reaches outside the cache
PositionCacheHasEntryPerChild ==
    stack_op.op # "none"
    => /\ Len(stack_render.children_positions) = Len(stack_lengths)
       /\ stack_op.op # "remove_child raised"


\* ------------------------------------------------------------------------
\* ObservableCollection.  A child is an ObservableEntity, known by its id;
\* coll.children is _children as the list of these ids, coll.map is
\* _children_map (a dict from id to index), and coll.subs[e] counts the
\* registrations of the handlers of the collection on entity e.  No
\* observer of the collection or of a child raises, and no call is made
\* while a child emits.
\* ------------------------------------------------------------------------
\* the entities an application has
MaxEntities == 3

Entities == 1..MaxEntities

\* the indices given to add_child and remove_child_at
CollIndices == 0..(MaxEntities + 1)

\* del d[k] on a dict that has the key
DictDel(d, k) == [x \in DOMAIN d \ {k} |-> d[x]]

\* "for i in range(start, len(self._children)):
\*      self._children_map[self._children[i].id] = i"
RECURSIVE Renumber(_, _, _)
Renumber(m, cs, start) ==
    IF start >= Len(cs) THEN m
    ELSE Renumber(DictSet(m, cs[start + 1], start), cs, start + 1)

\* ObservableCollection.add_child(child, index); given is whether an index
\* was passed.  The map is given the index as passed, and list.insert puts
\* the child at the end for an index beyond it
CollAddChild(c, e, given, index) ==
    LET at == IF given THEN index ELSE Len(c.children)
    IN  IF e \in DOMAIN c.map
        THEN [c EXCEPT !.raised = "AlreadyExistError"]
        ELSE Then(ListInsert(c.children, Min(at, Len(c.children)), e),
                  LAMBDA cs :
                     [c EXCEPT !.subs[e] = @ + 1,
                               !.children = cs,
                               !.map = Renumber(DictSet(c.map, e, at), cs,
                                                at + 1)])

\* ObservableCollection.remove_child_at(index)
CollRemoveChildAt(c, index) ==
    IF index >= Len(c.children) THEN [c EXCEPT !.raised = "IndexError"]
    ELSE LET e == c.children[index + 1]
         IN  IF c.subs[e] = 0 THEN [c EXCEPT !.raised = "ValueError"]
             ELSE Then(ListDelete(c.children, index), LAMBDA cs :
                     [c EXCEPT !.subs[e] = @ - 1,
                               !.children = cs,
                               !.map = Renumber(DictDel(c.map, e), cs, index)])

\* ObservableCollection.remove_child_by_id(id): get_child_by_id reads
\* self._children[index], remove_child looks the id of that child up again
CollRemoveChildById(c, e) ==
    IF e \notin DOMAIN c.map THEN c
    ELSE IF c.map[e] >= Len(c.children) THEN [c EXCEPT !.raised = "IndexError"]
    ELSE CollRemoveChildAt(c, c.map[c.children[c.map[e] + 1]])

\* the loops of ObservableCollection.set_children
RECURSIVE CollClear(_)
CollClear(c) ==
    IF c.children = <<>> \/ c.raised # "" THEN c
    ELSE CollClear(CollRemoveChildAt(c, 0))

RECURSIVE CollAddEach(_, _)
CollAddEach(c, es) ==
    IF es = <<>> \/ c.raised # "" THEN c
    ELSE CollAddEach(CollAddChild(c, Head(es), FALSE, 0), Tail(es))

\* ObservableCollection.set_children(children)
CollSetChildren(c, es) ==
    Then(CollClear(c), LAMBDA c1 :
        IF c1.raised # "" THEN c1 ELSE CollAddEach(c1, es))

\* what a call leaves: the collection, and in log the call and the
\* collection before it
CollDid(call, e, index, result) ==
    /\ coll' = [result EXCEPT
                   !.log = [call |-> call, e |-> e, index |-> index,
                            before |-> [children |-> coll.children,
                                        map |-> coll.map, subs |-> coll.subs]]]
    /\ UNCHANGED <<leafVars, stackVars, poll, chain, gate, placement, sizing,
                   search, hit, nest, bychild, entity, emitterVars,
                   windowVars>>

\* the collection as the last call left it, ready for the next one
CollNow == [coll EXCEPT !.raised = ""]

\* collection.add_child(e), and collection.add_child(e, index)
CollectionAddChild(e, given, index) ==
    /\ coll.op = "collection"
    /\ given \/ index = 0
    /\ CollDid("add_child", e, IF given THEN index ELSE Len(coll.children),
               CollAddChild(CollNow, e, given, index))

\* collection.remove_child_at(index)
CollectionRemoveChildAt(index) ==
    /\ coll.op = "collection"
    /\ CollDid("remove_child_at", 0, index, CollRemoveChildAt(CollNow, index))

\* collection.remove_child_by_id(e)
CollectionRemoveChildById(e) ==
    /\ coll.op = "collection"
    /\ CollDid("remove_child_by_id", e, 0, CollRemoveChildById(CollNow, e))

\* collection.set_children(es)
CollectionSetChildren(es) ==
    /\ coll.op = "collection"
    /\ CollDid("set_children", 0, 0, CollSetChildren(CollNow, es))

\* the lists of entities given to set_children
EntityLists == UNION {[1..k -> Entities] : k \in 0..MaxEntities}

\* ObservableCollection()
InitCollection ==
    /\ InitEmitter
    /\ reentrant = FALSE
    /\ InitElements
    /\ InitLeafProbe
    /\ InitStackProbe
    /\ poll = NewWindow
    /\ chain = Unused
    /\ gate = Unused
    /\ placement = Unused
    /\ sizing = Unused
    /\ search = Unused
    /\ hit = Unused
    /\ nest = Unused
    /\ bychild = Unused
    /\ entity = Unused
    /\ coll = [op |-> "collection", children |-> <<>>, map |-> <<>>,
               subs |-> [e \in Entities |-> 0], raised |-> "",
               log |-> [call |-> "init", e |-> 0, index |-> 0,
                        before |-> [children |-> <<>>, map |-> <<>>,
                                    subs |-> [e \in Entities |-> 0]]]]

NextCollection ==
    \/ \E e \in Entities, given \in BOOLEAN, index \in CollIndices :
          CollectionAddChild(e, given, index)
    \/ \E index \in CollIndices : CollectionRemoveChildAt(index)
    \/ \E e \in Entities : CollectionRemoveChildById(e)
    \/ \E es \in EntityLists : CollectionSetChildren(es)

SpecCollection == InitCollection /\ [][NextCollection]_vars

\* the map has one key per child, and the id of every child goes to the
\* position of the child
MapMirrorsList(c) ==
    /\ DOMAIN c.map = {c.children[i] : i \in DOMAIN c.children}
    /\ \A i \in DOMAIN c.children : c.map[c.children[i]] = i - 1

\* C39: after any sequence of add_child (index omitted, inside the list or
\* beyond its end), remove_child_at, remove_child_by_id and set_children
\* the id-to-index map has exactly one key per child and maps the id of
\* each child to its position in the list; an add_child with an id
\* already present raises AlreadyExistError and leaves list, map and
\* subscriptions unchanged
MapFollowsChildren ==
    coll.op = "collection"
    => /\ MapMirrorsList(coll)
       /\ (coll.log.call = "add_child" /\ coll.raised = "AlreadyExistError")
          => /\ coll.children = coll.log.before.children
             /\ coll.map = coll.log.before.map
             /\ coll.subs = coll.log.before.subs


\* ------------------------------------------------------------------------
\* ObservableEntity.  entity.model is _model (None, or one of the data
\* values), entity.is_loading is _is_loading, and entity.events is the list
\* of the EntityLoadEvent payloads (is_loading, is_loaded) the entity
\* emitted as ENTITY_LOAD.
\* ------------------------------------------------------------------------
\* the data values given to set_model, besides None
MaxData == 3
\* the ENTITY_LOAD events an entity emits
MaxLoads == 4

Data == {None} \cup 1..MaxData

\* "self.emit(EntityEventType.ENTITY_LOAD,
\*            EntityLoadEvent(self, self.is_loading, self.is_loaded))"
EmitLoad(en) ==
    [en EXCEPT !.events = Append(@, <<en.is_loading, en.model # None>>)]

\* ObservableEntity.set_loading
SetLoading(en) ==
    IF en.is_loading THEN en
    ELSE EmitLoad([en EXCEPT !.is_loading = TRUE, !.model = None])

\* ObservableEntity.set_model(data)
SetModel(en, data) ==
    IF en.model = data THEN en
    ELSE EmitLoad([en EXCEPT !.is_loading = FALSE, !.model = data])

EntityDid(call, data, result) ==
    /\ Len(result.events) <= MaxLoads
    /\ entity' = [result EXCEPT !.log = [call |-> call, data |-> data]]
    /\ UNCHANGED <<leafVars, stackVars, poll, chain, gate, placement, sizing,
                   search, hit, nest, bychild, coll, emitterVars,
                   windowVars>>

\* entity.set_loading()
EntitySetLoading ==
    /\ entity.op = "entity"
    /\ EntityDid("set_loading", None, SetLoading(entity))

\* entity.set_model(data)
EntitySetModel(data) ==
    /\ entity.op = "entity"
    /\ EntityDid("set_model", data, SetModel(entity, data))

\* ObservableEntity(identifier, [], model)
InitEntity ==
    /\ InitEmitter
    /\ reentrant = FALSE
    /\ InitElements
    /\ InitLeafProbe
    /\ InitStackProbe
    /\ poll = NewWindow
    /\ chain = Unused
    /\ gate = Unused
    /\ placement = Unused
    /\ sizing = Unused
    /\ search = Unused
    /\ hit = Unused
    /\ nest = Unused
    /\ bychild = Unused
    /\ coll = Unused
    /\ \E model \in Data :
          entity = [op |-> "entity", model |-> model, is_loading |-> FALSE,
                    events |-> <<>>,
                    log |-> [call |-> "init", data |-> model]]

NextEntity ==
    \/ EntitySetLoading
    \/ \E data \in Data : EntitySetModel(data)

SpecEntity == InitEntity /\ [][NextEntity]_vars

\* C40: after set_model(data) returns is_loading is false and the model is
\* data, for every prior state and every data, set_model(None) after
\* set_loading() included
SetModelEndsLoading ==
    (entity.op = "entity" /\ entity.log.call = "set_model")
    => /\ ~entity.is_loading
       /\ entity.model = entity.log.data

====
